---- MODULE Spec2Model ----
(***************************************************************************)
(* Verification model of the infinity-engine-parser resource manager       *)
(* (src/src/resource.rs) and of the host API built on the process-wide     *)
(* manager (src/src/lib.rs).                                               *)
(*                                                                         *)
(* Strings are sequences of characters; a character is a one-element       *)
(* string token.  Option<T> is a sequence of length 0 (None) or 1 (Some).  *)
(***************************************************************************)
EXTENDS Integers, Sequences, FiniteSets, TLC

VARIABLES
    keys,       \* ResourceManager.keys  : Games -> Key
    bifs,       \* ResourceManager.bifs  : Games -> (fileName -> Bif)
    paths,      \* ResourceManager.paths : Games -> install path
    tlks,       \* ResourceManager.tlks  : Games -> (fileName -> Tlk)
    fs,         \* the file system: path -> "ok" | "corrupt" | "missing"
    last,       \* the last manager operation: name, arguments, result, file reads
    created,    \* how many times the OnceLock initialiser of getManager ran
    owner,      \* the thread holding the manager mutex (NoThread when free)
    poisoned,   \* the poison flag of the manager mutex
    pc,         \* per thread: position inside its host call
    call,       \* per thread: the entry point and arguments of its host call
    guard,      \* per thread: the result of Mutex::lock ("none", "ok", "err")
    out,        \* per thread: the value the host call returned
    began,      \* per thread: the cache entries of calls completed before it began
    done,       \* the cache entries inserted by the host calls that have returned
    dec         \* the last decoding of bytes: the decoder, its input and its result

mgrVars  == <<keys, bifs, paths, tlks>>
hostVars == <<created, owner, poisoned, pc, call, guard, out, began, done>>
vars     == <<keys, bifs, paths, tlks, fs, last, created, owner, poisoned,
              pc, call, guard, out, began, done, dec>>

None == << >>
Some(v) == <<v>>

(***************************************************************************)
(* Strings and paths                                                       *)
(***************************************************************************)

\* The one non-ASCII character of the model, two bytes long in UTF-8.
EAcute == "U+00E9"

Utf8Width(c) == IF c = EAcute THEN 2 ELSE 1

RECURSIVE ByteLen(_)
ByteLen(s) == IF s = << >> THEN 0 ELSE Utf8Width(Head(s)) + ByteLen(Tail(s))

\* str::is_char_boundary: byte offset i starts a character (or is the end).
IsCharBoundary(s, i) == \E k \in 0..Len(s) : ByteLen(SubSeq(s, 1, k)) = i

\* The number of characters in the first i bytes of s (i a char boundary).
CharsBefore(s, i) == CHOOSE k \in 0..Len(s) : ByteLen(SubSeq(s, 1, k)) = i

ExtLower == <<".", "b", "i", "f">>
ExtUpper == <<".", "B", "I", "F">>
Separator == "/"
Backslash == "\\"

\* Path::join on a platform whose separator is '/': an absolute component
\* replaces the path, otherwise it is appended after one separator.
PathJoin(base, comp) ==
    IF comp # << >> /\ comp[1] = Separator THEN comp
    ELSE IF base = << >> \/ base[Len(base)] = Separator THEN base \o comp
    ELSE base \o <<Separator>> \o comp

\* str::split("\\"): the components between backslashes, empty ones included.
RECURSIVE SplitBackslash(_, _)
SplitBackslash(s, acc) ==
    IF s = << >> THEN <<acc>>
    ELSE IF Head(s) = Backslash THEN <<acc>> \o SplitBackslash(Tail(s), << >>)
    ELSE SplitBackslash(Tail(s), Append(acc, Head(s)))

RECURSIVE JoinAll(_, _)
JoinAll(base, comps) ==
    IF comps = << >> THEN base
    ELSE JoinAll(PathJoin(base, Head(comps)), Tail(comps))

ContainsBackslash(s) == \E i \in 1..Len(s) : s[i] = Backslash

(***************************************************************************)
(* Games                                                                   *)
(***************************************************************************)

\* enum Games, in declaration order (discriminants 0..9).
GamesEnum == <<"None", "BaldursGate1", "BaldursGate1EnhancedEdition",
               "BaldursGate2", "BaldursGate2EnhancedEdition",
               "IcewindDale1", "IcewindDale1EnhancedEdition",
               "IcewindDale2", "PlanescapeTorment",
               "PlanescapeTormentEnhancedEdition">>

GamesNone == "None"

\* Games::from_repr
FromRepr(i) == IF i \in 0..(Len(GamesEnum) - 1) THEN Some(GamesEnum[i + 1]) ELSE None

UnwrapOr(opt, default) == IF opt = None THEN default ELSE opt[1]

NameMixed == <<"C", "h", "i", "t", "i", "n", ".", "k", "e", "y">>
NameLowerKey == <<"c", "h", "i", "t", "i", "n", ".", "k", "e", "y">>
NameUpperKey == <<"C", "H", "I", "T", "I", "N", ".", "K", "E", "Y">>

KeyFileName(game) ==
    CASE game = "BaldursGate1" -> Some(NameMixed)
      [] game = "BaldursGate1EnhancedEdition" -> Some(NameLowerKey)
      [] game = "BaldursGate2" -> Some(NameUpperKey)
      [] game = "BaldursGate2EnhancedEdition" -> Some(NameLowerKey)
      [] game = "IcewindDale1" -> Some(NameUpperKey)
      [] game = "IcewindDale1EnhancedEdition" -> Some(NameLowerKey)
      [] game = "IcewindDale2" -> Some(NameUpperKey)
      [] game = "PlanescapeTorment" -> Some(NameUpperKey)
      [] game = "PlanescapeTormentEnhancedEdition" -> Some(NameLowerKey)
      [] OTHER -> None

(***************************************************************************)
(* Bit fields of the locators                                              *)
(***************************************************************************)

\* (value >> shift) & ((1 << bitIndex) - 1)
ReadValue(value, bitIndex, shift) == (value \div (2 ^ shift)) % (2 ^ bitIndex)

ResourceEntry_BifEntry == 12
ResourceEntry_File == 14
ResourceEntry_Tileset == 6

indexFile(entry) == ReadValue(entry.locator, ResourceEntry_File, 0)
indexTileset(entry) == ReadValue(entry.locator, ResourceEntry_Tileset, ResourceEntry_File)
indexBifEntry(entry) ==
    ReadValue(entry.locator, ResourceEntry_BifEntry, ResourceEntry_File + ResourceEntry_Tileset)

FileEntryIndex_MaskBits == 14
TilesetEntryIndex_MaskBits == 6
TilesetEntryIndex_Shift == 14

FileEntry_index(entry) == ReadValue(entry.locator, FileEntryIndex_MaskBits, 0)
TilesetEntry_index(entry) ==
    ReadValue(entry.locator, TilesetEntryIndex_MaskBits, TilesetEntryIndex_Shift)

\* A locator with BIF index b, tileset index t and file index f.
Locator(b, t, f) == b * (2 ^ 20) + t * (2 ^ 14) + f

ResourceType_BMP == 1
ResourceType_TIS == 1003

\* `resourceType as u16`
AsU16(t) == t % 65536

(***************************************************************************)
(* The installation on disk                                                *)
(***************************************************************************)

GameDir == <<"/", "g">>
NoDir == <<"/", "n">>
ExistingDirs == {<<"/">>, GameDir}

\* BIF file names, as a KEY records them or as a caller passes them.
BifDefault == <<"d", "\\", "a", ".", "B", "I", "F">>
BifArea == <<"b", ".", "b", "i", "f">>
BifOther == <<"q", ".", "x", "y", "z">>
BifShort == <<"/", "x">>
BifAccent == <<EAcute, "b", "i", "f">>

TlkDialog == <<"d", ".", "t", "l", "k">>
TlkAbsent == <<"m", ".", "t", "l", "k">>
LangDir == <<"l">>

PathKey1 == PathJoin(GameDir, NameMixed)
PathDefault == <<"/", "g", "/", "d", "/", "a", ".", "b", "i", "f">>
PathAreaUpper == <<"/", "g", "/", "b", ".", "B", "I", "F">>
PathAreaLower == <<"/", "g", "/", "b", ".", "b", "i", "f">>
PathTlkRoot == <<"/", "g", "/", "d", ".", "t", "l", "k">>
PathTlkLang == <<"/", "g", "/", "l", "/", "d", ".", "t", "l", "k">>

\* File payloads inside a BIF.  `png` is what the raster codec makes of a
\* decoded bitmap: Some(bytes) or None when re-encoding fails.
PayPortrait == [kind |-> "Bmp", height |-> 330, width |-> 210, png |-> Some(<<137, 80, 78, 71>>)]
PaySmall == [kind |-> "Bmp", height |-> 60, width |-> 38, png |-> None]
PayPatched == [kind |-> "Bmp", height |-> 64, width |-> 64, png |-> Some(<<137, 80>>)]
PayJunk == [kind |-> "Junk", height |-> 0, width |-> 0, png |-> None]

TisFirst == [tileCount |-> 1]
TisSecond == [tileCount |-> 2]

BifA == [fileEntries |-> << [locator |-> Locator(0, 0, 1), data |-> PayPortrait],
                            [locator |-> Locator(0, 1, 1), data |-> PaySmall],
                            [locator |-> Locator(0, 0, 2), data |-> PayJunk] >>,
         tilesetEntries |-> << >>]

BifB == [fileEntries |-> << [locator |-> Locator(0, 0, 0), data |-> PaySmall] >>,
         tilesetEntries |-> << [locator |-> Locator(0, 1, 0), data |-> Some(TisFirst)],
                               [locator |-> Locator(0, 2, 0), data |-> Some(TisSecond)] >>]

\* The lower-case b.bif the environment installs: a patched copy of b.BIF.
BifPatched ==
    [fileEntries |-> << [locator |-> Locator(0, 0, 0), data |-> PayPatched] >>,
     tilesetEntries |-> << [locator |-> Locator(0, 1, 0), data |-> Some(TisSecond)] >>]

Key1 == [bifEntries |-> << [fileName |-> BifDefault], [fileName |-> BifArea],
                           [fileName |-> BifShort] >>,
         resourceEntries |-> <<
            [name |-> "AJANTISG", type |-> 1,    locator |-> Locator(0, 0, 1)],
            [name |-> "AJANTISG", type |-> 1,    locator |-> Locator(1, 0, 0)],
            [name |-> "AR2600",   type |-> 1003, locator |-> Locator(1, 1, 0)],
            [name |-> "AR2600",   type |-> 1003, locator |-> Locator(1, 2, 0)],
            [name |-> "AR2600",   type |-> 1,    locator |-> Locator(1, 0, 0)],
            [name |-> "JUNK",     type |-> 1,    locator |-> Locator(0, 0, 2)],
            [name |-> "SHORT",    type |-> 1,    locator |-> Locator(2, 0, 0)],
            [name |-> "SHORT",    type |-> 1003, locator |-> Locator(2, 1, 0)],
            [name |-> "NOBIF",    type |-> 1,    locator |-> Locator(7, 0, 0)],
            [name |-> "NOBIF",    type |-> 1003, locator |-> Locator(0, 3, 9)] >>]

TlkStrings == [strings |-> <<"hello">>]

\* What each file of the installation decodes to when it is intact.
Disk ==
    (PathKey1 :> [type |-> "Key", value |-> Key1]) @@
    (PathDefault :> [type |-> "Bif", value |-> BifA]) @@
    (PathAreaUpper :> [type |-> "Bif", value |-> BifB]) @@
    (PathAreaLower :> [type |-> "Bif", value |-> BifPatched]) @@
    (PathTlkRoot :> [type |-> "Tlk", value |-> TlkStrings]) @@
    (PathTlkLang :> [type |-> "Tlk", value |-> TlkStrings])

FsPaths == DOMAIN Disk

\* The installation as shipped: a KEY for BaldursGate1 only, d/a.bif only in
\* lower case, b.BIF only in upper case, a damaged top-level d.tlk.
FullInstall ==
    [p \in FsPaths |-> IF p = PathAreaLower THEN "missing"
                       ELSE IF p = PathTlkRoot THEN "corrupt" ELSE "ok"]

\* What the environment does to files while the program runs: it damages
\* and restores the KEY, and installs and deletes a lower-case b.bif.
ChangeInputs == {<<PathKey1, "ok">>, <<PathKey1, "corrupt">>,
                 <<PathAreaLower, "ok">>, <<PathAreaLower, "missing">>}

\* Path::exists
Exists(f, path) == path \in ExistingDirs \/ (path \in DOMAIN f /\ f[path] # "missing")

\* ReadFromFile::<T>: fs::read, then T::fromCursor on the bytes (Ok = Some).
ReadFromFile(f, T, path) ==
    IF path \in DOMAIN f /\ f[path] = "ok" /\ Disk[path].type = T
    THEN Some(Disk[path].value) ELSE None

(***************************************************************************)
(* Maps                                                                    *)
(***************************************************************************)

EmptyMap == << >>
MapInsert(map, k, v) == [x \in (DOMAIN map) \cup {k} |-> IF x = k THEN v ELSE map[x]]
MapRemove(map, k) == [x \in (DOMAIN map) \ {k} |-> map[x]]
MapGet(map, k) == IF k \in DOMAIN map THEN Some(map[k]) ELSE None

\* bifs.get(&game)?.get(&fileName)
MapGet2(map, k1, k2) ==
    IF k1 \in DOMAIN map /\ k2 \in DOMAIN map[k1] THEN Some(map[k1][k2]) ELSE None

(***************************************************************************)
(* ResourceManager (src/src/resource.rs).  An operation is an operator     *)
(* from the manager m = [keys, bifs, paths, tlks] and the file system f to *)
(* an outcome [ret, panic, m, reads]: the returned Option, whether the     *)
(* call panicked, the manager afterwards and the files it tried to read.   *)
(***************************************************************************)

Manager == [keys |-> keys, bifs |-> bifs, paths |-> paths, tlks |-> tlks]
DefaultManager == [keys |-> EmptyMap, bifs |-> EmptyMap, paths |-> EmptyMap, tlks |-> EmptyMap]

Outcome(ret, m, reads) == [ret |-> ret, panic |-> FALSE, m |-> m, reads |-> reads]
Panic(m, reads) == [ret |-> None, panic |-> TRUE, m |-> m, reads |-> reads]

\* The extension the retry uses when the path ends in ".bif".
AlternateOfLower == ExtUpper

\* let value = ...: Then(value), with the value computed once.
Bind(value, Then(_)) == Then(value)

alternateBifExtension(filePath) ==
    Bind(ByteLen(filePath), LAMBDA len :
    IF len < 4 \/ ~IsCharBoundary(filePath, len - 4)
    THEN [panic |-> TRUE, path |-> None]
    ELSE Bind(CharsBefore(filePath, len - 4), LAMBDA k :
         [panic |-> FALSE,
          path |-> Some(IF SubSeq(filePath, k + 1, Len(filePath)) = ExtLower
                        THEN SubSeq(filePath, 1, k) \o AlternateOfLower
                        ELSE SubSeq(filePath, 1, k) \o ExtLower)]))

getInstallPath(m, game) == MapGet(m.paths, game)

formatFilePath(m, game, fileName) ==
    Bind(getInstallPath(m, game), LAMBDA installPath :
    IF installPath = None THEN None
    ELSE IF ContainsBackslash(fileName)
         THEN Some(JoinAll(installPath[1], SplitBackslash(fileName, << >>)))
         ELSE Some(PathJoin(installPath[1], fileName)))

\* The name under which readBifFromFile caches what it read.
BifCacheName(fileName, filePath) == fileName

\* bifs with an inner map for game, empty if it had none.
WithInner(map, game) ==
    IF game \in DOMAIN map THEN map ELSE MapInsert(map, game, EmptyMap)

\* map.insert(k2, v) on the inner map of k1.
MapInsert2(map, k1, k2, v) == [map EXCEPT ![k1] = MapInsert(map[k1], k2, v)]

\* A readBifFromFile that creates the game's inner map before it reads.
readBifFromFile_Eager(m, f, game, fileName, filePath) ==
    Bind(ReadFromFile(f, "Bif", filePath), LAMBDA instance :
    IF instance # None
    THEN [ok |-> TRUE,
          m |-> [m EXCEPT !.bifs = MapInsert2(WithInner(m.bifs, game), game,
                                              BifCacheName(fileName, filePath), instance[1])]]
    ELSE [ok |-> FALSE, m |-> [m EXCEPT !.bifs = WithInner(m.bifs, game)]])

readBifFromFile(m, f, game, fileName, filePath) ==
    Bind(ReadFromFile(f, "Bif", filePath), LAMBDA instance :
    IF instance # None
    THEN [ok |-> TRUE,
          m |-> [m EXCEPT !.bifs = MapInsert2(WithInner(m.bifs, game), game,
                                              BifCacheName(fileName, filePath), instance[1])]]
    ELSE [ok |-> FALSE, m |-> m])

\* A loadBif that never trusts its cache.
BifCacheMiss_Always(m, game, fileName) == TRUE

\* The cache test at the head of loadBif.
BifCacheMiss(m, game, fileName) ==
    game \notin DOMAIN m.bifs \/ fileName \notin DOMAIN m.bifs[game]

loadBif(m, f, game, fileName) ==
    IF BifCacheMiss(m, game, fileName)
    THEN Bind(formatFilePath(m, game, fileName), LAMBDA filePath :
         IF filePath = None THEN Outcome(None, m, << >>)
         ELSE Bind(readBifFromFile(m, f, game, fileName, filePath[1]), LAMBDA first :
              IF first.ok
              THEN Outcome(MapGet2(first.m.bifs, game, fileName), first.m, <<filePath[1]>>)
              ELSE Bind(alternateBifExtension(filePath[1]), LAMBDA alt :
                   IF alt.panic THEN Panic(m, <<filePath[1]>>)
                   ELSE Bind(readBifFromFile(m, f, game, fileName, alt.path[1]), LAMBDA second :
                        Outcome(MapGet2(second.m.bifs, game, fileName), second.m,
                                <<filePath[1], alt.path[1]>>)))))
    ELSE Outcome(MapGet2(m.bifs, game, fileName), m, << >>)

\* A loadKey that never trusts its cache.
KeyCacheMiss_Always(m, game) == TRUE

\* The cache test at the head of loadKey.
KeyCacheMiss(m, game) == game \notin DOMAIN m.keys

\* The read of the KEY file at filePath and the insert into keys.
loadKey_read(m, game, filePath, instance) ==
    IF instance # None
    THEN Outcome(instance, [m EXCEPT !.keys = MapInsert(m.keys, game, instance[1])], <<filePath>>)
    ELSE Outcome(MapGet(m.keys, game), m, <<filePath>>)

loadKey(m, f, game) ==
    IF KeyCacheMiss(m, game)
    THEN Bind(getInstallPath(m, game), LAMBDA installPath :
         Bind(KeyFileName(game), LAMBDA keyFile :
         IF installPath = None \/ keyFile = None THEN Outcome(None, m, << >>)
         ELSE Bind(PathJoin(installPath[1], keyFile[1]), LAMBDA filePath :
              loadKey_read(m, game, filePath, ReadFromFile(f, "Key", filePath)))))
    ELSE Outcome(MapGet(m.keys, game), m, << >>)

\* Iterator::rfind over the positions that match: the last one, 0 if none.
FindLast(positions) ==
    IF positions = {} THEN 0 ELSE CHOOSE i \in positions : \A j \in positions : j <= i

\* Iterator::find over the positions that match: the first one, 0 if none.
FindFirst(positions) ==
    IF positions = {} THEN 0 ELSE CHOOSE i \in positions : \A j \in positions : i <= j

\* Vec::get with a zero-based index.
VecGet(seq, i) == IF i + 1 \in 1..Len(seq) THEN Some(seq[i + 1]) ELSE None

\* T::fromCursor on a BIF file entry's payload (Ok = Some).
fromCursor(T, data) ==
    IF data.kind = T
    THEN Some([info |-> [height |-> data.height, width |-> data.width], image |-> data.png])
    ELSE None

\* The positions of the KEY's resource entries of that type and name.
MatchingEntries(key, resourceType, resourceName) ==
    {i \in 1..Len(key.resourceEntries) :
        /\ key.resourceEntries[i].type = AsU16(resourceType)
        /\ key.resourceEntries[i].name = resourceName}

loadResource(m, f, T, game, resourceType, resourceName) ==
    Bind(loadKey(m, f, game), LAMBDA key :
    IF key.ret = None THEN key
    ELSE
    Bind(FindFirst(MatchingEntries(key.ret[1], resourceType, resourceName)), LAMBDA found :
    IF found = 0 THEN Outcome(None, key.m, key.reads)
    ELSE
    Bind(key.ret[1].resourceEntries[found], LAMBDA resourceEntry :
    Bind(VecGet(key.ret[1].bifEntries, indexBifEntry(resourceEntry)), LAMBDA bifEntry :
    IF bifEntry = None THEN Outcome(None, key.m, key.reads)
    ELSE
    Bind(loadBif(key.m, f, game, bifEntry[1].fileName), LAMBDA bif :
    IF bif.panic THEN Panic(bif.m, key.reads \o bif.reads)
    ELSE IF bif.ret = None THEN Outcome(None, bif.m, key.reads \o bif.reads)
    ELSE
    Bind(FindFirst({i \in 1..Len(bif.ret[1].fileEntries) :
            FileEntry_index(bif.ret[1].fileEntries[i]) = indexFile(resourceEntry)}),
         LAMBDA fileEntry :
    IF fileEntry = 0 THEN Outcome(None, bif.m, key.reads \o bif.reads)
    ELSE Outcome(fromCursor(T, bif.ret[1].fileEntries[fileEntry].data),
                 bif.m, key.reads \o bif.reads)))))))

loadTileset(m, f, game, resourceName) ==
    Bind(loadKey(m, f, game), LAMBDA key :
    IF key.ret = None THEN key
    ELSE
    Bind(FindFirst(MatchingEntries(key.ret[1], ResourceType_TIS, resourceName)), LAMBDA found :
    IF found = 0 THEN Outcome(None, key.m, key.reads)
    ELSE
    Bind(key.ret[1].resourceEntries[found], LAMBDA resourceEntry :
    Bind(VecGet(key.ret[1].bifEntries, indexBifEntry(resourceEntry)), LAMBDA bifEntry :
    IF bifEntry = None THEN Outcome(None, key.m, key.reads)
    ELSE
    Bind(loadBif(key.m, f, game, bifEntry[1].fileName), LAMBDA bif :
    IF bif.panic THEN Panic(bif.m, key.reads \o bif.reads)
    ELSE IF bif.ret = None THEN Outcome(None, bif.m, key.reads \o bif.reads)
    ELSE
    Bind(FindFirst({i \in 1..Len(bif.ret[1].tilesetEntries) :
            TilesetEntry_index(bif.ret[1].tilesetEntries[i]) = indexTileset(resourceEntry)}),
         LAMBDA tilesetEntry :
    IF tilesetEntry = 0 THEN Outcome(None, bif.m, key.reads \o bif.reads)
    ELSE Outcome(bif.ret[1].tilesetEntries[tilesetEntry].data,
                 bif.m, key.reads \o bif.reads)))))))

\* glob(installPath/**/fileName): the existing files of that name in the
\* install directory and below it, in the order the walk yields them.
GlobMatches(f, installPath, fileName) ==
    LET candidates == << PathJoin(installPath, fileName),
                         PathJoin(PathJoin(installPath, LangDir), fileName) >>
    IN  SelectSeq(candidates, LAMBDA p : p \in DOMAIN f /\ f[p] # "missing")

TlkCacheMiss(m, game, fileName) ==
    game \notin DOMAIN m.tlks \/ fileName \notin DOMAIN m.tlks[game]

loadTlk(m, f, game, fileName) ==
    IF TlkCacheMiss(m, game, fileName)
    THEN Bind(getInstallPath(m, game), LAMBDA installPath :
         IF installPath = None THEN Outcome(None, m, << >>)
         ELSE Bind(GlobMatches(f, installPath[1], fileName), LAMBDA found :
              Bind(FindFirst({i \in 1..Len(found) : ReadFromFile(f, "Tlk", found[i]) # None}),
                   LAMBDA hit :
              IF hit = 0 THEN Outcome(MapGet2(m.tlks, game, fileName), m, found)
              ELSE Outcome(ReadFromFile(f, "Tlk", found[hit]),
                           [m EXCEPT !.tlks = MapInsert2(WithInner(m.tlks, game), game, fileName,
                                                         ReadFromFile(f, "Tlk", found[hit])[1])],
                           SubSeq(found, 1, hit)))))
    ELSE Outcome(MapGet2(m.tlks, game, fileName), m, << >>)

removeKey(m, game) ==
    IF game \in DOMAIN m.keys THEN [m EXCEPT !.keys = MapRemove(m.keys, game)] ELSE m

\* A remove that keeps the emptied inner map.
DropInner_Never(map) == FALSE

\* Whether a remove drops the game's inner map from the outer map.
DropInner(map) == map = EmptyMap

\* The inner map after map.remove(&fileName).
Removed(map, fileName) ==
    IF fileName \in DOMAIN map THEN MapRemove(map, fileName) ELSE map

\* The outer map once the inner map of game has become `inner`.
AfterRemove(map, game, inner) ==
    IF DropInner(inner) THEN MapRemove(map, game) ELSE MapInsert(map, game, inner)

removeBif(m, game, fileName) ==
    IF game \in DOMAIN m.bifs
    THEN [m EXCEPT !.bifs = AfterRemove(m.bifs, game, Removed(m.bifs[game], fileName))]
    ELSE m

removeTlk(m, game, fileName) ==
    IF game \in DOMAIN m.tlks
    THEN [m EXCEPT !.tlks = AfterRemove(m.tlks, game, Removed(m.tlks[game], fileName))]
    ELSE m

\* A setInstallPath that only asks whether the path exists.
PathAccepted_AnyGame(f, game, path) == Exists(f, path)

\* The test at the head of setInstallPath.
PathAccepted(f, game, path) == game # GamesNone /\ Exists(f, path)

setInstallPath(m, f, game, path) ==
    IF PathAccepted(f, game, path)
    THEN [m EXCEPT !.paths = MapInsert(m.paths, game, path)]
    ELSE m

(***************************************************************************)
(* A caller that owns a ResourceManager and calls its public operations    *)
(* one after the other, while the environment changes files on disk.       *)
(***************************************************************************)

NoThread == 0
NumThreads == 2
Threads == 1..NumThreads

BG1 == "BaldursGate1"
BG2 == "BaldursGate2"

GameInputs == {GamesNone, BG1, BG2}
BifNameInputs == {BifDefault, BifArea, BifOther, BifShort, BifAccent}
TlkNameInputs == {TlkDialog, TlkAbsent}
ResourceNameInputs == {"AJANTISG", "AR2600", "SHORT", "NOBIF"}
ResourceTypeInputs == {ResourceType_BMP, ResourceType_TIS}

SetPathInputs == {<<BG1, GameDir>>, <<BG1, NoDir>>, <<BG2, GameDir>>, <<GamesNone, GameDir>>}
BifInputs == ({BG1} \X BifNameInputs) \cup {<<BG2, BifArea>>, <<GamesNone, BifArea>>}
ResourceInputs == ({BG1} \X ResourceTypeInputs \X ResourceNameInputs)
                    \cup {<<BG1, ResourceType_BMP, "JUNK">>,
                          <<BG2, ResourceType_BMP, "AJANTISG">>,
                          <<GamesNone, ResourceType_BMP, "AJANTISG">>,
                          <<BG1, ResourceType_BMP, "ajantisg">>}
TilesetInputs == ({BG1} \X ResourceNameInputs)
                   \cup {<<GamesNone, "AR2600">>, <<BG1, "ar2600">>}
TlkInputs == ({BG1} \X TlkNameInputs) \cup {<<GamesNone, TlkDialog>>}

NoName == << >>
NoCall == [fn |-> "none", game |-> 0, resourceType |-> 0, name |-> ""]

\* The record of the last manager operation: its name and arguments, what
\* it returned, whether it panicked and the files it tried to read.  `hit`
\* tells that the cache held the requested Key, Bif or Tlk when it began;
\* `again` that the operation before it was the same call and returned a
\* value.
Op(op, game, fileName, resourceType, resourceName, hit, o) ==
    [op |-> op, game |-> game, fileName |-> fileName,
     resourceType |-> resourceType, resourceName |-> resourceName,
     ret |-> o.ret, panic |-> o.panic, reads |-> o.reads, hit |-> hit,
     again |-> /\ last.op = op /\ last.game = game /\ last.fileName = fileName
               /\ last.resourceType = resourceType /\ last.resourceName = resourceName
               /\ last.ret # None]

NoOutcome == [ret |-> None, panic |-> FALSE, reads |-> << >>]

Install(m) ==
    /\ keys' = m.keys
    /\ bifs' = m.bifs
    /\ paths' = m.paths
    /\ tlks' = m.tlks

\* No bytes have been decoded yet.
NoDecode == [op |-> "none", input |-> << >>, out |-> << >>, applied |-> FALSE]

\* The manager, the mutex and the threads after construction.
Start ==
    /\ keys = EmptyMap
    /\ bifs = EmptyMap
    /\ paths = EmptyMap
    /\ tlks = EmptyMap
    /\ fs = FullInstall
    /\ last = [op |-> "new", game |-> GamesNone, fileName |-> NoName,
               resourceType |-> 0, resourceName |-> "", ret |-> None,
               panic |-> FALSE, reads |-> << >>, hit |-> FALSE, again |-> FALSE]
    /\ created = 0
    /\ owner = NoThread
    /\ poisoned = FALSE
    /\ pc = [t \in Threads |-> "idle"]
    /\ call = [t \in Threads |-> NoCall]
    /\ guard = [t \in Threads |-> "none"]
    /\ out = [t \in Threads |-> << >>]
    /\ began = [t \in Threads |-> {}]
    /\ done = {}

Init ==
    /\ Start
    /\ dec = NoDecode

SetInstallPath(game, path) ==
    /\ Install(setInstallPath(Manager, fs, game, path))
    /\ last' = Op("setInstallPath", game, path, 0, "", FALSE, NoOutcome)
    /\ UNCHANGED <<fs, hostVars, dec>>

LoadKey(game) ==
    LET o == loadKey(Manager, fs, game) IN
    /\ Install(o.m)
    /\ last' = Op("loadKey", game, NoName, 0, "", game \in DOMAIN keys, o)
    /\ UNCHANGED <<fs, hostVars, dec>>

LoadBif(game, fileName) ==
    LET o == loadBif(Manager, fs, game, fileName) IN
    /\ Install(o.m)
    /\ last' = Op("loadBif", game, fileName, 0, "",
                  MapGet2(bifs, game, fileName) # None, o)
    /\ UNCHANGED <<fs, hostVars, dec>>

LoadResource(game, resourceType, resourceName) ==
    LET o == loadResource(Manager, fs, "Bmp", game, resourceType, resourceName) IN
    /\ Install(o.m)
    /\ last' = Op("loadResource", game, NoName, resourceType, resourceName, FALSE, o)
    /\ UNCHANGED <<fs, hostVars, dec>>

LoadTileset(game, resourceName) ==
    LET o == loadTileset(Manager, fs, game, resourceName) IN
    /\ Install(o.m)
    /\ last' = Op("loadTileset", game, NoName, 0, resourceName, FALSE, o)
    /\ UNCHANGED <<fs, hostVars, dec>>

LoadTlk(game, fileName) ==
    LET o == loadTlk(Manager, fs, game, fileName) IN
    /\ Install(o.m)
    /\ last' = Op("loadTlk", game, fileName, 0, "",
                  MapGet2(tlks, game, fileName) # None, o)
    /\ UNCHANGED <<fs, hostVars, dec>>

RemoveKey(game) ==
    /\ Install(removeKey(Manager, game))
    /\ last' = Op("removeKey", game, NoName, 0, "", game \in DOMAIN keys, NoOutcome)
    /\ UNCHANGED <<fs, hostVars, dec>>

RemoveBif(game, fileName) ==
    /\ Install(removeBif(Manager, game, fileName))
    /\ last' = Op("removeBif", game, fileName, 0, "",
                  MapGet2(bifs, game, fileName) # None, NoOutcome)
    /\ UNCHANGED <<fs, hostVars, dec>>

RemoveTlk(game, fileName) ==
    /\ Install(removeTlk(Manager, game, fileName))
    /\ last' = Op("removeTlk", game, fileName, 0, "",
                  MapGet2(tlks, game, fileName) # None, NoOutcome)
    /\ UNCHANGED <<fs, hostVars, dec>>

\* The environment damages, deletes or restores a file.
ChangeFile(path, status) ==
    /\ fs[path] # status
    /\ fs' = [fs EXCEPT ![path] = status]
    /\ UNCHANGED <<mgrVars, last, hostVars, dec>>

Next ==
    \/ \E in \in SetPathInputs : SetInstallPath(in[1], in[2])
    \/ \E game \in GameInputs : LoadKey(game)
    \/ \E in \in BifInputs : LoadBif(in[1], in[2])
    \/ \E in \in ResourceInputs : LoadResource(in[1], in[2], in[3])
    \/ \E in \in TilesetInputs : LoadTileset(in[1], in[2])
    \/ \E in \in TlkInputs : LoadTlk(in[1], in[2])
    \/ \E game \in GameInputs : RemoveKey(game)
    \/ \E in \in BifInputs : RemoveBif(in[1], in[2])
    \/ \E in \in TlkInputs : RemoveTlk(in[1], in[2])
    \/ \E in \in ChangeInputs : ChangeFile(in[1], in[2])

Spec == Init /\ [][Next]_vars

(***************************************************************************)
(* Properties of the resource manager                                      *)
(***************************************************************************)

BifCount(map, game) == IF game \in DOMAIN map THEN Cardinality(DOMAIN map[game]) ELSE 0

\* C1: when loadResource(G, T, N) is called again right after it returned a
\* value (whatever happened to the files in between), it returns an equal
\* value, the same Keys are cached and G has as many Bifs cached as before.
C1_CacheIdempotence ==
    [][(last'.op = "loadResource" /\ last'.again) =>
            /\ last'.ret = last.ret
            /\ ~last'.panic
            /\ DOMAIN keys' = DOMAIN keys
            /\ BifCount(bifs', last'.game) = BifCount(bifs, last'.game)]_vars

\* The second of two equal loadResource calls returned a value although the
\* KEY on disk is damaged and a patched b.bif has appeared.
C1_Witness ==
    /\ last.op = "loadResource" /\ last.again /\ last.ret # None
    /\ last.resourceName = "AR2600"
    /\ fs[PathKey1] = "corrupt" /\ fs[PathAreaLower] = "ok"

\* C2: while a Key (a Bif) is cached, loadKey(G) (loadBif(G, f)) returns the
\* cached object and reads no file; a cached Key (Bif) stays cached,
\* unchanged, until removeKey(G) (removeBif(G, f)) is called.
C2_CachedUntilRemoved ==
    [][ /\ (last'.op = "loadKey" /\ last'.hit) =>
                /\ last'.reads = << >>
                /\ last'.game \in DOMAIN keys
                /\ last'.ret = Some(keys[last'.game])
        /\ (last'.op = "loadBif" /\ last'.hit) =>
                /\ last'.reads = << >>
                /\ MapGet2(bifs, last'.game, last'.fileName) # None
                /\ last'.ret = MapGet2(bifs, last'.game, last'.fileName)
        /\ \A g \in DOMAIN keys :
                \/ g \in DOMAIN keys' /\ keys'[g] = keys[g]
                \/ last'.op = "removeKey" /\ last'.game = g
        /\ \A g \in DOMAIN bifs : \A f \in DOMAIN bifs[g] :
                \/ MapGet2(bifs', g, f) = Some(bifs[g][f])
                \/ last'.op = "removeBif" /\ last'.game = g /\ last'.fileName = f
      ]_vars

\* loadBif answered from the cache while a different b.bif sits on disk.
C2_Witness ==
    /\ last.op = "loadBif" /\ last.hit /\ last.ret = Some(BifB)
    /\ last.fileName = BifArea /\ fs[PathAreaLower] = "ok"

\* The map `map` without its entry (game, fileName), and without `game`
\* when that was its last entry.
Evicted(map, game, fileName) ==
    LET Rest(g) == IF g = game THEN DOMAIN map[g] \ {fileName} ELSE DOMAIN map[g]
    IN  [g \in {h \in DOMAIN map : Rest(h) # {}} |-> [f \in Rest(g) |-> map[g][f]]]

\* C3: removeKey, removeBif and removeTlk evict the named entry and nothing
\* else, a game whose last Bif or Tlk is removed leaves the outer map, and
\* no game of bifs or tlks ever maps to an empty inner map.
C3_RemoveExactly ==
    [][ /\ \A g \in DOMAIN bifs' : DOMAIN bifs'[g] # {}
        /\ \A g \in DOMAIN tlks' : DOMAIN tlks'[g] # {}
        /\ last'.op = "removeKey" =>
                /\ keys' = [g \in DOMAIN keys \ {last'.game} |-> keys[g]]
                /\ UNCHANGED <<bifs, tlks, paths>>
        /\ last'.op = "removeBif" =>
                /\ bifs' = Evicted(bifs, last'.game, last'.fileName)
                /\ UNCHANGED <<keys, tlks, paths>>
        /\ last'.op = "removeTlk" =>
                /\ tlks' = Evicted(tlks, last'.game, last'.fileName)
                /\ UNCHANGED <<keys, bifs, paths>>
      ]_vars

\* removeBif took the last Bif of BaldursGate1 and the game with it, while
\* BaldursGate2 kept its Bif and BaldursGate1 its Key.
C3_Witness ==
    /\ last.op = "removeBif" /\ last.hit /\ last.game = BG1
    /\ BG1 \notin DOMAIN bifs /\ BG2 \in DOMAIN bifs /\ BG1 \in DOMAIN keys

\* b is a with the case of its ".bif" / ".BIF" extension flipped.
IsCaseFlip(a, b) ==
    /\ Len(a) = Len(b) /\ Len(a) >= 4
    /\ SubSeq(a, 1, Len(a) - 4) = SubSeq(b, 1, Len(b) - 4)
    /\ {SubSeq(a, Len(a) - 3, Len(a)), SubSeq(b, Len(b) - 3, Len(b))} = {ExtLower, ExtUpper}

\* C4: on a cache miss with a known install path, loadBif reads the path as
\* given and, only when that fails, once more the same path with the case
\* of its .bif/.BIF extension flipped; a successful read is cached under the
\* requested name and returned, two failed reads give None, without panic.
C4_CaseFlipRetry ==
    (last.op = "loadBif" /\ ~last.hit /\ last.game \in DOMAIN paths) =>
        /\ ~last.panic
        /\ Len(last.reads) \in {1, 2}
        /\ Len(last.reads) = 2 => IsCaseFlip(last.reads[1], last.reads[2])
        /\ last.ret = MapGet2(bifs, last.game, last.fileName)

\* C5: no load operation of the resource manager panics, whatever the files
\* hold and whatever BIF names the KEY records, and each returns None for a
\* game without an install path.
C5_NeverPanics ==
    last.op \in {"loadKey", "loadBif", "loadResource", "loadTileset", "loadTlk"} =>
        /\ ~last.panic
        /\ last.game \notin DOMAIN paths => last.ret = None

\* The payload the first KEY entry matching (resourceType, name) designates
\* in the cached Bif, if any.
FirstEntry(game, resourceType, name) ==
    LET entries == keys[game].resourceEntries
        hits == {i \in 1..Len(entries) :
                    entries[i].type = resourceType /\ entries[i].name = name}
    IN  entries[CHOOSE i \in hits : \A j \in hits : i <= j]

BifNameOf(game, entry) ==
    keys[game].bifEntries[(entry.locator \div 2 ^ 20) + 1].fileName

IsCached(game, fileName) == game \in DOMAIN bifs /\ fileName \in DOMAIN bifs[game]

\* C10: a value that loadResource or loadTileset returns is the one the
\* first KEY entry with that (type, name), in file order, designates: the
\* Bif that entry names is cached and holds the value at the entry's index.
C10_FirstEntryWins ==
    /\ (last.op = "loadResource" /\ last.ret # None) =>
            LET e == FirstEntry(last.game, last.resourceType, last.resourceName)
                b == BifNameOf(last.game, e)
            IN  /\ IsCached(last.game, b)
                /\ \E i \in 1..Len(bifs[last.game][b].fileEntries) :
                    LET fe == bifs[last.game][b].fileEntries[i] IN
                    /\ fe.locator % (2 ^ 14) = e.locator % (2 ^ 14)
                    /\ last.ret[1].info.width = fe.data.width
                    /\ last.ret[1].image = fe.data.png
    /\ (last.op = "loadTileset" /\ last.ret # None) =>
            LET e == FirstEntry(last.game, ResourceType_TIS, last.resourceName)
                b == BifNameOf(last.game, e)
            IN  /\ IsCached(last.game, b)
                /\ \E i \in 1..Len(bifs[last.game][b].tilesetEntries) :
                    LET te == bifs[last.game][b].tilesetEntries[i] IN
                    /\ (te.locator \div 2 ^ 14) % 64 = (e.locator \div 2 ^ 14) % 64
                    /\ last.ret = te.data

\* loadTileset resolved AR2600, which two KEY entries of type TIS name.
C10_Witness ==
    /\ last.op = "loadTileset" /\ last.resourceName = "AR2600"
    /\ last.ret = Some(TisFirst)
    /\ Cardinality({i \in 1..Len(keys[BG1].resourceEntries) :
            /\ keys[BG1].resourceEntries[i].type = ResourceType_TIS
            /\ keys[BG1].resourceEntries[i].name = "AR2600"}) = 2

(***************************************************************************)
(* The host API (src/src/lib.rs): threads call the entry points, which     *)
(* share the process-wide manager behind getManager().                     *)
(***************************************************************************)

\* A getManager that builds a manager on every call.
getManager_Fresh(c, m) ==
    [created |-> IF c < 2 THEN c + 1 ELSE c, m |-> DefaultManager]

\* OnceLock::get_or_init: the initialiser runs if the cell is empty, and the
\* caller gets the manager the cell holds.
getManager(c, m) ==
    IF c = 0 THEN [created |-> 1, m |-> DefaultManager] ELSE [created |-> c, m |-> m]

\* A lock() whose caller recovers the guard of a poisoned mutex.
LockResult_IntoInner(p) == "ok"

\* Mutex::lock: Err(PoisonError) once a holder has panicked.
LockResult(p) == IF p THEN "err" ELSE "ok"

\* mem::size_of::<u8>()
SizeOfU8 == 1

\* mem::size_of_val(&image), the size of the Vec<u8> header itself
\* (pointer, capacity and length on a 64-bit target).
SizeOfVal_Vec(image) == 3 * 8

\* mem::size_of_val(&*image), the size of the slice of bytes.
SizeOfVal(image) == Len(image) * SizeOfU8

\* Bmp::toImageBytes: the raster codec's PNG, Ok = Some.
toImageBytes(b) == b.image

\* The body of LoadBmp once loadResource has returned `loaded`.
LoadBmp(loaded) ==
    IF loaded # None /\ toImageBytes(loaded[1]) # None
    THEN toImageBytes(loaded[1])[1] ELSE << >>

\* The body of LoadBmpDimensions, with the unwrap_or_default of its caller.
LoadBmpDimensions(loaded) ==
    IF loaded # None
    THEN [height |-> loaded[1].info.height, width |-> loaded[1].info.width]
    ELSE [height |-> 0, width |-> 0]

\* The body of SizeBmp.
SizeBmp(loaded) ==
    IF loaded # None /\ toImageBytes(loaded[1]) # None
    THEN SizeOfVal(toImageBytes(loaded[1])[1]) ELSE 0

\* What an entry point returns given the Option<Bmp> it got from the
\* manager (None also when the lock was poisoned).
HostResult(fn, loaded) ==
    CASE fn = "LoadResource" -> LoadBmp(loaded)
      [] fn = "ResourceDimensions" -> LoadBmpDimensions(loaded)
      [] fn = "ResourceSize" -> SizeBmp(loaded)
      [] OTHER -> << >>

\* What an entry point returns for a resource type other than BMP.
HostDefault(fn) ==
    CASE fn = "LoadResource" -> << >>
      [] fn = "ResourceDimensions" -> [height |-> 0, width |-> 0]
      [] fn = "ResourceSize" -> 0
      [] OTHER -> << >>

HostFns == {"LoadResource", "ResourceDimensions", "ResourceSize"}

HostCalls ==
    {[fn |-> f, game |-> 1, resourceType |-> ResourceType_BMP, name |-> "AJANTISG"] : f \in HostFns}
    \cup
    {[fn |-> "LoadResource", game |-> 1, resourceType |-> ResourceType_TIS, name |-> "AR2600"],
     [fn |-> "LoadResource", game |-> 1, resourceType |-> ResourceType_BMP, name |-> "SHORT"],
     [fn |-> "updateResourceManager", game |-> 1, resourceType |-> 0, name |-> ""]}

\* The Key and Bif entries a manager caches.
CacheEntries(m) ==
    {<<"key", g, NoName>> : g \in DOMAIN m.keys}
    \cup UNION {{<<"bif", g, f>> : f \in DOMAIN m.bifs[g]} : g \in DOMAIN m.bifs}

\* A thread enters an entry point and initialises the value it will
\* return.  LoadResource, ResourceDimensions and ResourceSize return at once
\* for a type other than BMP; otherwise the first thing the call does is
\* getManager().
Begin(t, c) ==
    /\ pc[t] = "idle"
    /\ call' = [call EXCEPT ![t] = c]
    /\ guard' = [guard EXCEPT ![t] = "none"]
    /\ out' = [out EXCEPT ![t] = HostDefault(c.fn)]
    /\ IF c.fn \in HostFns /\ c.resourceType # ResourceType_BMP
       THEN UNCHANGED <<mgrVars, created, pc, began>>
       ELSE LET cell == getManager(created, Manager) IN
            /\ created' = cell.created
            /\ Install(cell.m)
            /\ pc' = [pc EXCEPT ![t] = "lock"]
            /\ began' = [began EXCEPT ![t] = done]
    /\ UNCHANGED <<fs, last, owner, poisoned, done, dec>>

\* Mutex::lock: blocks while another thread holds the mutex.
Lock(t) ==
    /\ pc[t] = "lock"
    /\ owner = NoThread
    /\ owner' = t
    /\ guard' = [guard EXCEPT ![t] = LockResult(poisoned)]
    /\ pc' = [pc EXCEPT ![t] = "locked"]
    /\ UNCHANGED <<mgrVars, fs, last, created, poisoned, call, out, began, done, dec>>

\* The end of a call that holds the guard: the guard is dropped and the
\* entry point returns.
Return(t) ==
    /\ owner' = NoThread
    /\ pc' = [pc EXCEPT ![t] = "idle"]
    /\ began' = [began EXCEPT ![t] = {}]

\* The body of `if let Ok(manager) = getManager().lock()`: the manager call
\* and what the entry point makes of its result.  A panic in a Rust caller
\* (the tests call the entry points as Rust functions) unwinds the thread,
\* and its guard poisons and releases the mutex; a panic in a call that
\* came through the exported C symbol cannot unwind into the host and ends
\* the process.
Load(t) ==
    /\ pc[t] = "locked"
    /\ guard[t] = "ok"
    /\ IF call[t].fn = "updateResourceManager"
       THEN /\ Install(setInstallPath(Manager, fs,
                        UnwrapOr(FromRepr(call[t].game), GamesNone), GameDir))
            /\ Return(t)
            /\ UNCHANGED <<poisoned, out, done>>
       ELSE LET o == loadResource(Manager, fs, "Bmp",
                        UnwrapOr(FromRepr(call[t].game), GamesNone),
                        ResourceType_BMP, call[t].name)
            IN  /\ Install(o.m)
                /\ IF o.panic
                   THEN /\ \/ /\ pc' = [pc EXCEPT ![t] = "panicked"]
                              /\ owner' = NoThread
                              /\ poisoned' = TRUE
                           \/ /\ pc' = [u \in Threads |-> "aborted"]
                              /\ UNCHANGED <<owner, poisoned>>
                        /\ UNCHANGED <<out, began, done>>
                   ELSE /\ out' = [out EXCEPT ![t] = HostResult(call[t].fn, o.ret)]
                        /\ done' = done \cup (CacheEntries(o.m) \ CacheEntries(Manager))
                        /\ Return(t)
                        /\ UNCHANGED poisoned
    /\ UNCHANGED <<fs, last, created, call, guard, dec>>

\* lock() returned Err: the `if let` body is skipped, the guard inside the
\* error is dropped and the entry point returns its initial value.
Skip(t) ==
    /\ pc[t] = "locked"
    /\ guard[t] = "err"
    /\ out' = [out EXCEPT ![t] = HostResult(call[t].fn, None)]
    /\ Return(t)
    /\ UNCHANGED <<mgrVars, fs, last, created, poisoned, call, guard, done, dec>>

HostNext ==
    \/ \E t \in Threads, c \in HostCalls : Begin(t, c)
    \/ \E t \in Threads : Lock(t)
    \/ \E t \in Threads : Load(t)
    \/ \E t \in Threads : Skip(t)

SpecHost == Init /\ [][HostNext]_vars

\* An entry point run to its end in one piece on manager m, file system f
\* and a mutex whose poison flag is p: what it returns, and whether the
\* manager call in it panics.
HostCall(fn, m, f, p, game, resourceType, name) ==
    IF resourceType # ResourceType_BMP
    THEN [ret |-> HostDefault(fn), panic |-> FALSE]
    ELSE IF LockResult(p) = "err"
    THEN [ret |-> HostResult(fn, None), panic |-> FALSE]
    ELSE LET o == loadResource(m, f, "Bmp", UnwrapOr(FromRepr(game), GamesNone),
                               ResourceType_BMP, name)
         IN  [ret |-> HostResult(fn, o.ret), panic |-> o.panic]

(***************************************************************************)
(* Properties of the host API.                                             *)
(***************************************************************************)

InManager(t) == pc[t] = "locked"

\* C6: every entry point uses the one process-wide manager, which is built
\* exactly once, by whichever call reaches getManager() first; and at most
\* one caller at a time is inside the manager: a caller inside it holds the
\* mutex, so two callers' manager accesses never interleave.
C6_OneManagerOneCaller ==
    /\ created <= 1
    /\ \A t \in Threads : pc[t] \in {"lock", "locked", "panicked"} => created = 1
    /\ \A t \in Threads : InManager(t) => owner = t
    /\ \A t, u \in Threads : InManager(t) /\ InManager(u) => t = u

\* One caller is inside the manager while another waits for the mutex.
C6_Witness ==
    \E t, u \in Threads :
        /\ pc[t] = "locked" /\ guard[t] = "ok" /\ owner = t /\ DOMAIN keys # {}
        /\ pc[u] = "lock"
        /\ created = 1

\* C7: when host call A has returned before host call B begins, every Key
\* and Bif entry A inserted into the caches is in the manager B works on.
C7_EffectsVisible ==
    \A t \in Threads :
        InManager(t) /\ guard[t] = "ok" => began[t] \subseteq CacheEntries(Manager)

\* A call holds the manager after an earlier call that cached a Key and a
\* Bif has returned.
C7_Witness ==
    \E t \in Threads :
        /\ pc[t] = "locked" /\ guard[t] = "ok"
        /\ <<"key", BG1, NoName>> \in began[t]
        /\ <<"bif", BG1, BifDefault>> \in began[t]

\* Thread t returns from an entry point in this step.
Returns(t) ==
    /\ pc'[t] = "idle"
    /\ pc[t] # "idle" \/ call'[t] # call[t]

\* C8: once the mutex is poisoned, every host load operation that returns
\* returns absence (empty buffer, zero dimensions, zero size), no call
\* panics any more, no call enters the manager, and the mutex is never left
\* held by a call that has ended.
C8_PoisonedReturnsAbsence ==
    [][poisoned =>
        /\ poisoned'
        /\ \A t \in Threads :
            /\ Returns(t) => out'[t] = HostDefault(call'[t].fn)
            /\ pc'[t] \in {"panicked", "aborted"} => pc[t] = pc'[t]
            /\ InManager(t) => guard[t] = "err"
            /\ pc'[t] = "idle" => owner' # t]_vars

\* After the poisoning a call for a resource that loads has gone through
\* the lock and returned.
C8_Witness ==
    /\ poisoned
    /\ \E t \in Threads :
        /\ pc[t] = "idle" /\ guard[t] = "err"
        /\ call[t].fn = "ResourceSize" /\ call[t].name = "AJANTISG" /\ call[t].game = 1
        /\ out[t] = 0

GameIdInputs == {1, 3, 99}

\* C9: for every game id, resource type and name, in one manager, mutex and
\* file-system state, ResourceSize returns the length of the buffer
\* LoadResource returns, and so 0 where that buffer is empty.
C9_SizeIsLength ==
    \A game \in GameIdInputs, resourceType \in ResourceTypeInputs,
       name \in ResourceNameInputs \cup {"JUNK"} :
        LET load == HostCall("LoadResource", Manager, fs, poisoned, game, resourceType, name)
            size == HostCall("ResourceSize", Manager, fs, poisoned, game, resourceType, name)
        IN  /\ load.panic = size.panic
            /\ ~load.panic => size.ret = Len(load.ret)

\* ResourceSize has returned the length of a PNG that LoadResource returns
\* in the same state.
C9_Witness ==
    \E t \in Threads :
        /\ pc[t] = "idle" /\ call[t].fn = "ResourceSize" /\ out[t] = 4
        /\ HostCall("LoadResource", Manager, fs, poisoned, call[t].game,
                    call[t].resourceType, call[t].name).ret = <<137, 80, 78, 71>>

(***************************************************************************)
(* Lookup by name, and the install paths.                                  *)
(***************************************************************************)

\* str::to_uppercase on the resource names the callers and the KEY use.
ToUpperName(name) ==
    CASE name = "ajantisg" -> "AJANTISG"
      [] name = "ar2600" -> "AR2600"
      [] OTHER -> name

\* The positions of the cached KEY's entries of that type whose name is
\* `name` up to letter case.
EntriesIgnoringCase(game, resourceType, name) ==
    {i \in 1..Len(keys[game].resourceEntries) :
        /\ keys[game].resourceEntries[i].type = AsU16(resourceType)
        /\ ToUpperName(keys[game].resourceEntries[i].name) = ToUpperName(name)}

\* C11: a loadResource or loadTileset whose name differs only in letter
\* case from the name stored in the KEY finds that entry: it returns what
\* the lookup by the stored name returns in the same state.
C11_CaseInsensitiveLookup ==
    /\ (last.op = "loadResource" /\ ~last.panic /\ last.game \in DOMAIN keys) =>
        \A i \in EntriesIgnoringCase(last.game, last.resourceType, last.resourceName) :
            loadResource(Manager, fs, "Bmp", last.game, last.resourceType,
                         keys[last.game].resourceEntries[i].name).ret # None
                => last.ret # None
    /\ (last.op = "loadTileset" /\ ~last.panic /\ last.game \in DOMAIN keys) =>
        \A i \in EntriesIgnoringCase(last.game, ResourceType_TIS, last.resourceName) :
            loadTileset(Manager, fs, last.game,
                        keys[last.game].resourceEntries[i].name).ret # None
                => last.ret # None

\* C12: paths holds only what setInstallPath recorded for a game other than
\* Games::None and a path that exists: it never has an entry for
\* Games::None, a setInstallPath for an acceptable (game, path) has recorded
\* it and any other has recorded nothing; every manager load for Games::None
\* returns None, and so does every host call whose game id is Games::None
\* or names no title.
C12_NoPathForNone ==
    /\ \A g \in DOMAIN paths : g # GamesNone /\ Exists(fs, paths[g])
    /\ last.op = "setInstallPath" =>
            IF last.game # GamesNone /\ Exists(fs, last.fileName)
            THEN MapGet(paths, last.game) = Some(last.fileName)
            ELSE MapGet(paths, last.game) # Some(last.fileName)
    /\ (last.game = GamesNone
            /\ last.op \in {"loadKey", "loadBif", "loadResource", "loadTileset", "loadTlk"})
            => last.ret = None /\ ~last.panic
    /\ \A fn \in HostFns, game \in {0, 99}, name \in ResourceNameInputs :
            HostCall(fn, Manager, fs, poisoned, game, ResourceType_BMP, name)
                = [ret |-> HostDefault(fn), panic |-> FALSE]

\* With an install path and a KEY cached for BaldursGate1, setInstallPath
\* was called for Games::None with an existing path and recorded nothing.
C12_Witness ==
    /\ last.op = "setInstallPath" /\ last.game = GamesNone /\ last.fileName = GameDir
    /\ DOMAIN paths = {BG1} /\ BG1 \in DOMAIN keys

(***************************************************************************)
(* Decoding bytes.  A u32 read from a cursor is kept as its four           *)
(* little-endian bytes, so that every 32-bit value is representable.       *)
(***************************************************************************)

Byte == 0..255

\* Bit i of a little-endian byte sequence; bits beyond the value are 0, as
\* in the widening `locator.into()` of the callers.
BitLE(bytes, i) ==
    IF i \div 8 < Len(bytes) THEN (bytes[(i \div 8) + 1] \div (2 ^ (i % 8))) % 2 ELSE 0

RECURSIVE SumBits(_, _, _)
SumBits(bytes, shift, k) ==
    IF k = 0 THEN 0
    ELSE SumBits(bytes, shift, k - 1) + BitLE(bytes, shift + k - 1) * (2 ^ (k - 1))

\* bits::ReadValue, (value >> shift) & ((1 << bitIndex) - 1), on little-endian bytes.
ReadValueLE(bytes, bitIndex, shift) == SumBits(bytes, shift, bitIndex)

\* The bytes read_u32::<LittleEndian> turns into (b << 20) | (t << 14) | f.
LocatorLE(b, t, f) ==
    << f % 256,
       (f \div 256) + (t % 4) * 64,
       (t \div 4) + (b % 16) * 16,
       b \div 16 >>

\* ResourceEntry::indexFile, indexTileset and indexBifEntry.
indexFileLE(locator) == ReadValueLE(locator, ResourceEntry_File, 0)
indexTilesetLE(locator) == ReadValueLE(locator, ResourceEntry_Tileset, ResourceEntry_File)
indexBifEntryLE(locator) ==
    ReadValueLE(locator, ResourceEntry_BifEntry, ResourceEntry_File + ResourceEntry_Tileset)

\* bif::FileEntry::index and bif::TilesetEntry::index of the current crate.
FileEntry_indexLE(locator) == ReadValueLE(locator, FileEntryIndex_MaskBits, 0)
TilesetEntry_indexLE(locator) ==
    ReadValueLE(locator, TilesetEntryIndex_MaskBits, TilesetEntryIndex_Shift)

\* FileEntry::index of the bundled copy BG5E/infinity-engine-parser: it reads
\* the locator with the tileset mask and shift.
BG5E_FileEntry_index(locator) ==
    ReadValueLE(locator, TilesetEntryIndex_MaskBits, TilesetEntryIndex_Shift)

LocatorBifs  == {0, 1, 15, 2047, 2048, 4095}
LocatorTiles == {0, 1, 63}
LocatorFiles == {0, 1, 40, 255, 256, 16383}

\* Bytes handed to a decoder, and the decoder's result for them.
Undecoded(op, input) == [op |-> op, input |-> input, out |-> << >>, applied |-> FALSE]
Decoded(op, input, result) == [op |-> op, input |-> input, out |-> result, applied |-> TRUE]

\* A KEY resource entry and a BIFF file entry carrying the same locator.
\* The decoder `op` has been handed its input and has not run yet.
Pending(op) == dec.op = op /\ ~dec.applied

DecodeLocator(b, t, f) ==
    /\ Pending("locator")
    /\ dec.input = <<b, t, f>>
    /\ dec' = Decoded("locator", <<b, t, f>>,
                  [indexBifEntry |-> indexBifEntryLE(LocatorLE(b, t, f)),
                   indexTileset |-> indexTilesetLE(LocatorLE(b, t, f)),
                   indexFile |-> indexFileLE(LocatorLE(b, t, f)),
                   fileEntry |-> FileEntry_indexLE(LocatorLE(b, t, f)),
                   tilesetEntry |-> TilesetEntry_indexLE(LocatorLE(b, t, f)),
                   fileEntryBG5E |-> BG5E_FileEntry_index(LocatorLE(b, t, f))])
    /\ UNCHANGED <<mgrVars, fs, last, hostVars>>

(***************************************************************************)
(* Color (types/util/color.rs)                                             *)
(***************************************************************************)

Color_ByteSize == 8
Color_One == 24
Color_Two == 16
Color_Three == 8
Color_Four == 0

\* Bit j of a u8.
BitU8(value, j) == IF j >= 0 /\ j < Color_ByteSize THEN (value \div (2 ^ j)) % 2 ELSE 0

RECURSIVE ShlByte(_, _, _, _)
\* Byte i (from 0) of (value as u32) << shift: its lowest k bits.
ShlByte(value, shift, i, k) ==
    IF k = 0 THEN 0
    ELSE ShlByte(value, shift, i, k - 1) + BitU8(value, 8 * i + k - 1 - shift) * (2 ^ (k - 1))

\* (value as u32) << shift, as little-endian bytes.
ShlLE(value, shift) == [i \in 1..4 |-> ShlByte(value, shift, i - 1, 8)]

RECURSIVE OrByte(_, _, _)
OrByte(a, b, k) ==
    IF k = 0 THEN 0
    ELSE OrByte(a, b, k - 1)
         + (IF BitU8(a, k - 1) = 1 \/ BitU8(b, k - 1) = 1 THEN 2 ^ (k - 1) ELSE 0)

\* a | b on little-endian bytes.
OrLE(a, b) == [i \in 1..4 |-> OrByte(a[i], b[i], 8)]

Color(red, green, blue, alpha) ==
    [red |-> red, green |-> green, blue |-> blue, alpha |-> alpha]

fromBGRA(value) ==
    Color(ReadValueLE(value, Color_ByteSize, Color_Three),
          ReadValueLE(value, Color_ByteSize, Color_Two),
          ReadValueLE(value, Color_ByteSize, Color_One),
          ReadValueLE(value, Color_ByteSize, Color_Four))

\* The channel order of Into<u32>: red in the top byte, blue in the second.
intoBGRA_AsRGBA(color) ==
    OrLE(OrLE(OrLE(ShlLE(color.red, Color_One), ShlLE(color.green, Color_Two)),
              ShlLE(color.blue, Color_Three)),
         ShlLE(color.alpha, Color_Four))

intoBGRA(color) ==
    OrLE(OrLE(OrLE(ShlLE(color.red, Color_Three), ShlLE(color.green, Color_Two)),
              ShlLE(color.blue, Color_One)),
         ShlLE(color.alpha, Color_Four))

\* Channel bytes: the extremes and the bytes of the test value 0xAABBCCDD.
ColorBytes == {0, 1, 170, 187, 204, 221, 255}

\* A palette entry of a TIS tile decoded and packed again; x3 is the top byte.
DecodeColor(x0, x1, x2, x3) ==
    /\ Pending("color")
    /\ dec.input = <<x0, x1, x2, x3>>
    /\ dec' = Decoded("color", <<x0, x1, x2, x3>>,
                  [color |-> fromBGRA(<<x0, x1, x2, x3>>),
                   packed |-> intoBGRA(fromBGRA(<<x0, x1, x2, x3>>))])
    /\ UNCHANGED <<mgrVars, fs, last, hostVars>>

(***************************************************************************)
(* Cursors and strings (bytes.rs).  A String is the sequence of its code   *)
(* points.                                                                 *)
(***************************************************************************)

Cursor(data, pos) == [data |-> data, pos |-> pos]

\* A read that succeeded with `value`, leaving the cursor at `pos`.
ReadOk(value, pos) == [ok |-> TRUE, value |-> value, pos |-> pos]
\* A read that ran past the end: Cursor::read_exact leaves the cursor at the end.
ReadErr(cursor) == [ok |-> FALSE, value |-> << >>, pos |-> Len(cursor.data)]

\* Read::read_exact on a Cursor, for a buffer of `length` bytes.
read_exact(cursor, length) ==
    IF length = 0 \/ cursor.pos + length <= Len(cursor.data)
    THEN ReadOk(SubSeq(cursor.data, cursor.pos + 1, cursor.pos + length), cursor.pos + length)
    ELSE ReadErr(cursor)

readBytesExact(cursor, length) == read_exact(cursor, length)

ReplacementChar == 65533

RECURSIVE from_utf8_lossy(_)
\* String::from_utf8, and String::from_utf8_lossy where it fails: ASCII and
\* two-byte sequences decode, any other byte becomes U+FFFD (longer
\* sequences do not occur in the inputs).
from_utf8_lossy(bytes) ==
    IF bytes = << >> THEN << >>
    ELSE IF bytes[1] < 128 THEN <<bytes[1]>> \o from_utf8_lossy(Tail(bytes))
    ELSE IF /\ bytes[1] >= 194 /\ bytes[1] <= 223 /\ Len(bytes) >= 2
            /\ bytes[2] >= 128 /\ bytes[2] <= 191
         THEN <<(bytes[1] - 192) * 64 + (bytes[2] - 128)>>
              \o from_utf8_lossy(Tail(Tail(bytes)))
    ELSE <<ReplacementChar>> \o from_utf8_lossy(Tail(bytes))

\* str::replace("\0", "")
ReplaceNul(text) == SelectSeq(text, LAMBDA ch : ch # 0)

parseString(bytes) == ReplaceNul(from_utf8_lossy(bytes))

\* The positions of `read` that hold a NUL.
NulPositions(read) == {i \in 1..Len(read) : read[i] = 0}

\* What readToReal leaves in `real`: the bytes before the first NUL, then zeroes.
readToReal(read) ==
    [i \in 1..Len(read) |-> IF \A j \in NulPositions(read) : i < j THEN read[i] ELSE 0]

\* readString!: the bytes before the first NUL are copied to realBytes, and
\* the string is parsed from `bytes`.
readString(cursor, length) ==
    Bind(readBytesExact(cursor, length), LAMBDA bytes :
        IF ~bytes.ok THEN bytes
        ELSE Bind(readToReal(bytes.value), LAMBDA realBytes :
                 ReadOk(parseString(bytes.value), bytes.pos)))

StringMaxLen == 5
StringBytes == {0, 72, 103, 255}
StringLengths == {2, 4}
\* "HELLO\0garbage"
HelloGarbage == <<72, 69, 76, 76, 79, 0, 103, 97, 114, 98, 97, 103, 101>>
StringInputs ==
    {<<Cursor(data, pos), n>> :
        data \in UNION {[1..k -> StringBytes] : k \in 0..StringMaxLen},
        pos \in {0, 1}, n \in StringLengths}
    \cup {<<Cursor(HelloGarbage, 0), Len(HelloGarbage)>>}

DecodeString(cursor, length) ==
    /\ Pending("string")
    /\ dec.input = <<cursor, length>>
    /\ dec' = Decoded("string", <<cursor, length>>, readString(cursor, length))
    /\ UNCHANGED <<mgrVars, fs, last, hostVars>>

(***************************************************************************)
(* KEY, BIFF and TIS decoding (types/key.rs, types/bif/bif.rs,             *)
(* types/tis.rs, types/util/identity.rs)                                   *)
(***************************************************************************)

RECURSIVE LittleEndian(_)
\* The integer that byteorder's LittleEndian reads from `bytes`.
LittleEndian(bytes) ==
    IF bytes = << >> THEN 0 ELSE bytes[1] + 256 * LittleEndian(Tail(bytes))

RECURSIVE FieldStart(_, _)
\* Where field k of consecutive fields of those widths begins.
FieldStart(widths, k) ==
    IF k = 1 THEN 0 ELSE FieldStart(widths, k - 1) + widths[k - 1]

\* Consecutive read_u16 / read_u32 calls, each followed by `?`: the values
\* read for the given widths, or the failure of the first read the data
\* does not hold (a failed read leaves the cursor at the end).
ReadFields(cursor, widths) ==
    IF widths = << >> THEN ReadOk(<< >>, cursor.pos)
    ELSE IF cursor.pos + FieldStart(widths, Len(widths) + 1) > Len(cursor.data)
         THEN ReadErr(cursor)
    ELSE ReadOk([k \in 1..Len(widths) |->
                    LittleEndian(SubSeq(cursor.data,
                                        cursor.pos + FieldStart(widths, k) + 1,
                                        cursor.pos + FieldStart(widths, k + 1)))],
                cursor.pos + FieldStart(widths, Len(widths) + 1))

\* A read that stops at the end of the data instead of failing.
readBytes_Available(cursor, length) ==
    IF cursor.pos + length <= Len(cursor.data) THEN read_exact(cursor, length)
    ELSE ReadOk(SubSeq(cursor.data, cursor.pos + 1, Len(cursor.data)), Len(cursor.data))

\* readBytes!: `length` calls of read_u8, each followed by `?`.
readBytes(cursor, length) == read_exact(cursor, length)

Identity_StringLength == 4
TypeSize_RESREF == 8

Identity_fromCursor(cursor) ==
    Bind(readString(cursor, Identity_StringLength), LAMBDA signature :
        IF ~signature.ok THEN signature
        ELSE Bind(readString(Cursor(cursor.data, signature.pos), Identity_StringLength),
                  LAMBDA version :
                    IF ~version.ok THEN version
                    ELSE ReadOk([signature |-> signature.value, version |-> version.value],
                                version.pos)))

BifEntry_fromCursor(cursor) ==
    Bind(ReadFields(cursor, <<4, 4, 2, 2>>), LAMBDA r :
        IF ~r.ok THEN r
        ELSE ReadOk([fileName |-> << >>, fileLength |-> r.value[1],
                     fileNameOffset |-> r.value[2], fileNameLength |-> r.value[3],
                     locatorBits |-> r.value[4]], r.pos))

\* The locator is kept as the four bytes read_u32 consumed.
ResourceEntry_fromCursor(cursor) ==
    Bind(readString(cursor, TypeSize_RESREF), LAMBDA name :
        IF ~name.ok THEN name
        ELSE Bind(ReadFields(Cursor(cursor.data, name.pos), <<2>>), LAMBDA type :
                IF ~type.ok THEN type
                ELSE Bind(read_exact(Cursor(cursor.data, type.pos), 4), LAMBDA locator :
                        IF ~locator.ok THEN locator
                        ELSE ReadOk([name |-> name.value, type |-> type.value[1],
                                     locator |-> locator.value], locator.pos))))

FileEntry_fromCursor(cursor) ==
    Bind(ReadFields(cursor, <<4, 4, 4, 2, 2>>), LAMBDA r :
        IF ~r.ok THEN r
        ELSE ReadOk([locator |-> r.value[1], offset |-> r.value[2], size |-> r.value[3],
                     type |-> r.value[4], unknown |-> r.value[5], data |-> << >>], r.pos))

TilesetEntry_fromCursor(cursor) ==
    Bind(ReadFields(cursor, <<4, 4, 4, 4, 2, 2>>), LAMBDA r :
        IF ~r.ok THEN r
        ELSE ReadOk([locator |-> r.value[1], offset |-> r.value[2],
                     tileCount |-> r.value[3], tileSize |-> r.value[4],
                     type |-> r.value[5], unknown |-> r.value[6], data |-> None], r.pos))

Tis_PaletteSize == 256
Tis_TileLength == 4096
Tis_ColorLength == 4
Tis_HeaderSize == 24
Tis_TileSize == 64

\* 256 palette values read as u32, kept as their bytes, then the 4096 pixels.
TisTileData_fromCursor(cursor) ==
    Bind(read_exact(cursor, Tis_PaletteSize * Tis_ColorLength), LAMBDA table :
        IF ~table.ok THEN table
        ELSE Bind(read_exact(Cursor(cursor.data, table.pos), Tis_TileLength), LAMBDA pixels :
                IF ~pixels.ok THEN pixels
                ELSE ReadOk(
                    [palette |-> [i \in 1..Tis_PaletteSize |->
                                      SubSeq(table.value, 4 * i - 3, 4 * i)],
                     colors |-> [i \in 1..Tis_PaletteSize |->
                                      fromBGRA(SubSeq(table.value, 4 * i - 3, 4 * i))],
                     pixels |-> pixels.value],
                    pixels.pos)))

readResRef(cursor) == readString(cursor, TypeSize_RESREF)

\* A Tilemap::fromCursor that leaves the cursor where it was.
Tilemap_fromCursor_Peek(cursor) ==
    Bind(ReadFields(cursor, <<2, 2, 2, 1>>), LAMBDA r :
        IF ~r.ok THEN r
        ELSE Bind(read_exact(Cursor(cursor.data, r.pos), 3), LAMBDA unknown :
                IF ~unknown.ok THEN unknown
                ELSE ReadOk([start |-> r.value[1], count |-> r.value[2],
                             secondary |-> r.value[3], mask |-> r.value[4],
                             unknown |-> unknown.value], cursor.pos)))

Tilemap_fromCursor(cursor) ==
    Bind(ReadFields(cursor, <<2, 2, 2, 1>>), LAMBDA r :
        IF ~r.ok THEN r
        ELSE Bind(read_exact(Cursor(cursor.data, r.pos), 3), LAMBDA unknown :
                IF ~unknown.ok THEN unknown
                ELSE ReadOk([start |-> r.value[1], count |-> r.value[2],
                             secondary |-> r.value[3], mask |-> r.value[4],
                             unknown |-> unknown.value], unknown.pos)))

Door_fromCursor(cursor) ==
    Bind(readResRef(cursor), LAMBDA name :
        IF ~name.ok THEN name
        ELSE Bind(ReadFields(Cursor(cursor.data, name.pos), <<2, 2, 2, 2, 2, 4, 4>>), LAMBDA r :
                IF ~r.ok THEN r
                ELSE ReadOk([name |-> name.value, openClosed |-> r.value[1],
                             firstDoorIndex |-> r.value[2], tileCellCount |-> r.value[3],
                             openCount |-> r.value[4], closedCount |-> r.value[5],
                             openOffset |-> r.value[6], closedOffset |-> r.value[7]],
                            r.pos)))

WallGroup_fromCursor(cursor) ==
    Bind(ReadFields(cursor, <<2, 2>>), LAMBDA r :
        IF ~r.ok THEN r ELSE ReadOk([start |-> r.value[1], count |-> r.value[2]], r.pos))

\* Polygon::fromCursor, with BoundingBox::fromCursor for its last four fields.
Polygon_fromCursor(cursor) ==
    Bind(ReadFields(cursor, <<4, 4, 1, 1, 2, 2, 2, 2>>), LAMBDA r :
        IF ~r.ok THEN r
        ELSE ReadOk([start |-> r.value[1], count |-> r.value[2], mask |-> r.value[3],
                     height |-> r.value[4],
                     boundingBox |-> [left |-> r.value[5], top |-> r.value[6],
                                      right |-> r.value[7], bottom |-> r.value[8]]],
                    r.pos))

\* cursor.read_u16 or cursor.read_u32 in a loop that pushes the value.
Integer_fromCursor(cursor, width) ==
    Bind(ReadFields(cursor, <<width>>), LAMBDA r :
        IF ~r.ok THEN r ELSE ReadOk(r.value[1], r.pos))

EntryFromCursor(kind, cursor) ==
    CASE kind = "BifEntry" -> BifEntry_fromCursor(cursor)
      [] kind = "Door" -> Door_fromCursor(cursor)
      [] kind = "WallGroup" -> WallGroup_fromCursor(cursor)
      [] kind = "Polygon" -> Polygon_fromCursor(cursor)
      [] kind = "u16" -> Integer_fromCursor(cursor, 2)
      [] kind = "u32" -> Integer_fromCursor(cursor, 4)
      [] kind = "ResourceEntry" -> ResourceEntry_fromCursor(cursor)
      [] kind = "FileEntry" -> FileEntry_fromCursor(cursor)
      [] kind = "TilesetEntry" -> TilesetEntry_fromCursor(cursor)
      [] kind = "TisTileData" -> TisTileData_fromCursor(cursor)

RECURSIVE ReadEntries(_, _, _)
\* for _ in 0..count { entries.push(T::fromCursor(cursor)?) }
ReadEntries(kind, cursor, count) ==
    IF count = 0 THEN ReadOk(<< >>, cursor.pos)
    ELSE Bind(EntryFromCursor(kind, cursor), LAMBDA entry :
            IF ~entry.ok THEN entry
            ELSE Bind(ReadEntries(kind, Cursor(cursor.data, entry.pos), count - 1),
                      LAMBDA rest :
                        IF ~rest.ok THEN rest
                        ELSE ReadOk(<<entry.value>> \o rest.value, rest.pos)))

\* Tis::new(count) followed by Tis::read.
Tis_read(cursor, count) ==
    Bind(ReadEntries("TisTileData", cursor, count), LAMBDA tiles :
        IF ~tiles.ok THEN tiles
        ELSE ReadOk([identity |-> [signature |-> <<84, 73, 83, 32>>,
                                   version |-> <<86, 49, 32, 32>>],
                     tileCount |-> count, tileLength |-> Tis_TileLength,
                     headerSize |-> Tis_HeaderSize, tileSize |-> Tis_TileSize,
                     tiles |-> tiles.value], tiles.pos))

\* What the loop over an entry vector stores in one entry, after
\* cursor.set_position to the offset the entry names.
FillEntry(kind, data, entry) ==
    CASE kind = "BifEntry" ->
            Bind(readBytes(Cursor(data, entry.fileNameOffset), entry.fileNameLength),
                 LAMBDA nameBytes :
                    IF ~nameBytes.ok THEN nameBytes
                    ELSE ReadOk([entry EXCEPT !.fileName = parseString(nameBytes.value)],
                                nameBytes.pos))
      [] kind = "FileEntry" ->
            Bind(readBytes(Cursor(data, entry.offset), entry.size), LAMBDA bytes :
                    IF ~bytes.ok THEN bytes
                    ELSE ReadOk([entry EXCEPT !.data = bytes.value], bytes.pos))
      [] kind = "TilesetEntry" ->
            Bind(Tis_read(Cursor(data, entry.offset), entry.tileCount), LAMBDA tis :
                    IF ~tis.ok THEN tis
                    ELSE ReadOk([entry EXCEPT !.data = Some(tis.value)], tis.pos))

RECURSIVE FillEntries(_, _, _)
FillEntries(kind, data, entries) ==
    IF entries = << >> THEN ReadOk(<< >>, 0)
    ELSE Bind(FillEntry(kind, data, Head(entries)), LAMBDA entry :
            IF ~entry.ok THEN entry
            ELSE Bind(FillEntries(kind, data, Tail(entries)), LAMBDA rest :
                    IF ~rest.ok THEN rest
                    ELSE ReadOk(<<entry.value>> \o rest.value, entry.pos)))

\* Result<T> of a decoder.
Ok(value) == [ok |-> TRUE, value |-> value, error |-> "none"]
Err(error) == [ok |-> FALSE, value |-> << >>, error |-> error]
UnexpectedEof == Err("UnexpectedEof")

Key_fromCursor(cursor) ==
    Bind(Identity_fromCursor(cursor), LAMBDA identity :
     IF ~identity.ok THEN UnexpectedEof
     ELSE Bind(ReadFields(Cursor(cursor.data, identity.pos), <<4, 4, 4, 4>>), LAMBDA header :
      IF ~header.ok THEN UnexpectedEof
      ELSE Bind(ReadEntries("BifEntry", Cursor(cursor.data, header.value[3]), header.value[1]),
                LAMBDA bifEntries :
       IF ~bifEntries.ok THEN UnexpectedEof
       ELSE Bind(ReadEntries("ResourceEntry", Cursor(cursor.data, header.value[4]),
                             header.value[2]), LAMBDA resourceEntries :
        IF ~resourceEntries.ok THEN UnexpectedEof
        ELSE Bind(FillEntries("BifEntry", cursor.data, bifEntries.value), LAMBDA named :
         IF ~named.ok THEN UnexpectedEof
         ELSE Ok([identity |-> identity.value,
                  bifCount |-> header.value[1], resourceCount |-> header.value[2],
                  bifOffset |-> header.value[3], resourceOffset |-> header.value[4],
                  bifEntries |-> named.value,
                  resourceEntries |-> resourceEntries.value]))))))

Bif_fromCursor(cursor) ==
    Bind(Identity_fromCursor(cursor), LAMBDA identity :
     IF ~identity.ok THEN UnexpectedEof
     ELSE Bind(ReadFields(Cursor(cursor.data, identity.pos), <<4, 4, 4>>), LAMBDA header :
      IF ~header.ok THEN UnexpectedEof
      ELSE Bind(ReadEntries("FileEntry", Cursor(cursor.data, header.pos), header.value[1]),
                LAMBDA fileEntries :
       IF ~fileEntries.ok THEN UnexpectedEof
       ELSE Bind(ReadEntries("TilesetEntry", Cursor(cursor.data, fileEntries.pos),
                             header.value[2]), LAMBDA tilesetEntries :
        IF ~tilesetEntries.ok THEN UnexpectedEof
        ELSE Bind(FillEntries("FileEntry", cursor.data, fileEntries.value), LAMBDA files :
         IF ~files.ok THEN UnexpectedEof
         ELSE Bind(FillEntries("TilesetEntry", cursor.data, tilesetEntries.value),
                   LAMBDA tilesets :
          IF ~tilesets.ok THEN UnexpectedEof
          ELSE Ok([identity |-> identity.value,
                   fileCount |-> header.value[1], tilesetCount |-> header.value[2],
                   offset |-> header.value[3],
                   fileEntries |-> files.value,
                   tilesetEntries |-> tilesets.value])))))))

(***************************************************************************)
(* KEY and BIFF files as bytes                                             *)
(***************************************************************************)

Key_Signature == <<75, 69, 89, 32>>     \* "KEY "
Key_Version == <<86, 49, 32, 32>>       \* "V1  "
Bif_Signature == <<66, 73, 70, 70>>     \* "BIFF"
Bif_Version == <<86, 49, 32, 32>>       \* "V1  "
Bifc_Signature == <<66, 73, 70, 32>>    \* "BIF "
VersionTwo == <<86, 50, 32, 32>>        \* "V2  "

U16LE(n) == <<n % 256, (n \div 256) % 256>>
U32LE(n) == <<n % 256, (n \div 256) % 256, (n \div 65536) % 256, n \div 16777216>>

RECURSIVE Sum(_)
Sum(numbers) == IF numbers = << >> THEN 0 ELSE Head(numbers) + Sum(Tail(numbers))

RECURSIVE Concat(_)
Concat(parts) == IF parts = << >> THEN << >> ELSE Head(parts) \o Concat(Tail(parts))

\* The bytes of one tile are 256 palette values and 64 x 64 pixels.
TileBytes == Tis_PaletteSize * Tis_ColorLength + Tis_TileLength

BifHeaderSize == 20
FileEntrySize == 16
TilesetEntrySize == 20

\* `files` lists the size of each file, `tiles` the <<tileCount, tileSize>>
\* of each tileset; the data blocks follow the two entry tables in order.
BifDataStart(files, tiles) ==
    BifHeaderSize + FileEntrySize * Len(files) + TilesetEntrySize * Len(tiles)

TileCounts(tiles) == [j \in 1..Len(tiles) |-> tiles[j][1]]

BifFileOffset(files, tiles, i) == BifDataStart(files, tiles) + Sum(SubSeq(files, 1, i - 1))

BifTileOffset(files, tiles, j) ==
    BifDataStart(files, tiles) + Sum(files)
        + TileBytes * Sum(SubSeq(TileCounts(tiles), 1, j - 1))

BifBytes(signature, version, files, tiles) ==
    signature \o version \o U32LE(Len(files)) \o U32LE(Len(tiles)) \o U32LE(BifHeaderSize)
    \o Concat([i \in 1..Len(files) |->
                  U32LE(i - 1) \o U32LE(BifFileOffset(files, tiles, i)) \o U32LE(files[i])
                  \o U16LE(ResourceType_BMP) \o U16LE(0)])
    \o Concat([j \in 1..Len(tiles) |->
                  U32LE(Locator(0, j - 1, 0)) \o U32LE(BifTileOffset(files, tiles, j))
                  \o U32LE(tiles[j][1]) \o U32LE(tiles[j][2])
                  \o U16LE(ResourceType_TIS) \o U16LE(0)])
    \o Concat([i \in 1..Len(files) |-> [k \in 1..files[i] |-> (16 * i + k) % 256]])
    \o Concat([j \in 1..Len(tiles) |->
                  [k \in 1..(TileBytes * tiles[j][1]) |-> (7 * k + j) % 256]])

KeyHeaderSize == 24
BifEntrySize == 12
ResourceEntrySize == 14

\* `names` lists the NUL-terminated file name of each BIF, `resources` the
\* <<name, type, locator bytes>> of each resource.
KeyNameOffset(names, resources, i) ==
    KeyHeaderSize + BifEntrySize * Len(names) + ResourceEntrySize * Len(resources)
        + Sum([k \in 1..(i - 1) |-> Len(names[k])])

KeyBytes(signature, version, names, resources) ==
    signature \o version \o U32LE(Len(names)) \o U32LE(Len(resources))
    \o U32LE(KeyHeaderSize) \o U32LE(KeyHeaderSize + BifEntrySize * Len(names))
    \o Concat([i \in 1..Len(names) |->
                  U32LE(0) \o U32LE(KeyNameOffset(names, resources, i))
                  \o U16LE(Len(names[i])) \o U16LE(1)])
    \o Concat([i \in 1..Len(resources) |->
                  resources[i][1] \o U16LE(resources[i][2]) \o resources[i][3]])
    \o Concat(names)

\* The file without its last `cut` bytes.
Truncate(bytes, cut) == SubSeq(bytes, 1, Len(bytes) - cut)

Cuts == {0, 1}

BifFiles == {<< >>, <<2>>, <<0, 3>>}
BifTiles == {<< >>, <<<<1, TileBytes>>>>, <<<<0, TileBytes>>, <<2, 12>>>>}

BifByteInputs ==
    {Truncate(BifBytes(Bif_Signature, Bif_Version, files, tiles), cut) :
        files \in BifFiles, tiles \in BifTiles, cut \in Cuts}
    \cup {Truncate(BifBytes(signature, version, <<2>>, << >>), cut) :
              signature \in {Bif_Signature, Bifc_Signature},
              version \in {Bif_Version, VersionTwo}, cut \in Cuts}

\* "a.bif\0"
KeyNames == {<< >>, <<<<97, 46, 98, 105, 102, 0>>>>}
\* "AJANTISG", a BMP, locator 0xF00028
KeyResources ==
    {<< >>, <<<<<<65, 74, 65, 78, 84, 73, 83, 71>>, ResourceType_BMP, LocatorLE(15, 0, 40)>>>>}

\* `bytes` with the u32 at byte `at` replaced by n.
WithU32(bytes, at, n) == SubSeq(bytes, 1, at) \o U32LE(n) \o SubSeq(bytes, at + 5, Len(bytes))

\* The header's bifOffset and resourceOffset, and the first BIF entry's fileNameOffset.
KeyOffsetFields(names) == {16, 20} \cup (IF names = << >> THEN {} ELSE {KeyHeaderSize + 4})

\* KEY files with one offset moved `far` bytes past the end of the file;
\* the BIF entry of the empty name has fileNameLength 0.
KeyOffsetInputs ==
    UNION {{WithU32(KeyBytes(Key_Signature, Key_Version, names, resources), at,
                    Len(KeyBytes(Key_Signature, Key_Version, names, resources)) + far) :
                at \in KeyOffsetFields(names), far \in {0, 1, 100}} :
           names \in KeyNames \cup {<<<< >>>>}, resources \in KeyResources}

KeyByteInputs ==
    {Truncate(KeyBytes(signature, version, names, resources), cut) :
        signature \in {Key_Signature, Bif_Signature}, version \in {Key_Version, VersionTwo},
        names \in KeyNames, resources \in KeyResources, cut \in Cuts}
    \cup KeyOffsetInputs

DecodeKey(bytes) ==
    /\ Pending("key")
    /\ dec.input = bytes
    /\ dec' = Decoded("key", bytes, Key_fromCursor(Cursor(bytes, 0)))
    /\ UNCHANGED <<mgrVars, fs, last, hostVars>>

DecodeBif(bytes) ==
    /\ Pending("bif")
    /\ dec.input = bytes
    /\ dec' = Decoded("bif", bytes, Bif_fromCursor(Cursor(bytes, 0)))
    /\ UNCHANGED <<mgrVars, fs, last, hostVars>>

(***************************************************************************)
(* WED decoding (types/wed).  Overlay::fromCursor takes the process-wide   *)
(* manager of lib.rs; `g` is that manager, its cell and its mutex, with    *)
(* the files read so far.                                                  *)
(***************************************************************************)

Global(m, p, c) == [m |-> m, poisoned |-> p, created |-> c, reads |-> << >>]

\* The String a RESREF decodes to, as the resource name the KEY lists.
NameOfText(text) ==
    CASE text = <<65, 82, 50, 54, 48, 48>> -> "AR2600"
      [] text = <<83, 72, 79, 82, 84>> -> "SHORT"
      [] text = <<78, 79, 66, 73, 70>> -> "NOBIF"
      [] text = <<87, 84, 87, 65, 86, 69>> -> "WTWAVE"
      [] OTHER -> ""

\* The outcome of a step of Wed::fromCursor.
Step(ok, panic, value, pos, g) ==
    [ok |-> ok, panic |-> panic, value |-> value, pos |-> pos, g |-> g]

\* The fields of an overlay entry, before its tileset is asked for.
OverlayFields(cursor) ==
    Bind(ReadFields(cursor, <<2, 2>>), LAMBDA dims :
     IF ~dims.ok THEN dims
     ELSE Bind(readResRef(Cursor(cursor.data, dims.pos)), LAMBDA name :
      IF ~name.ok THEN name
      ELSE Bind(ReadFields(Cursor(cursor.data, name.pos), <<2, 2, 4, 4>>), LAMBDA r :
       IF ~r.ok THEN r
       ELSE ReadOk([width |-> dims.value[1], height |-> dims.value[2],
                    tilesetName |-> name.value,
                    uniqueTileCount |-> r.value[1], movementType |-> r.value[2],
                    tilemapOffset |-> r.value[3], tileIndexLookupOffset |-> r.value[4],
                    tileIndexLookup |-> << >>, tilemaps |-> << >>, tis |-> None],
                   r.pos))))

\* if let Ok(resourceManager) = getManager().lock()
\*     { tis = resourceManager.loadTileset(Games::BaldursGate1, tilesetName) }
\* A panic inside loadTileset unwinds through the guard and poisons the mutex.
OverlayTileset(g, f, tilesetName) ==
    Bind(getManager(g.created, g.m), LAMBDA cell :
     IF LockResult(g.poisoned) # "ok"
     THEN [tis |-> None, panic |-> FALSE,
           g |-> [g EXCEPT !.m = cell.m, !.created = cell.created]]
     ELSE Bind(loadTileset(cell.m, f, BG1, NameOfText(tilesetName)), LAMBDA o :
           [tis |-> o.ret, panic |-> o.panic,
            g |-> [m |-> o.m, poisoned |-> o.panic, created |-> cell.created,
                   reads |-> g.reads \o o.reads]]))

\* for i in 0..count { values.push(cursor.read_u16::<LittleEndian>()?) }, or
\* read_u32 for a width of 4: the loop fails at the first value the data
\* does not hold.
ReadIntegers(cursor, width, count) ==
    IF count = 0 THEN ReadOk(<< >>, cursor.pos)
    ELSE IF cursor.pos + width * count > Len(cursor.data) THEN ReadErr(cursor)
    ELSE ReadOk([k \in 1..count |->
                    LittleEndian(SubSeq(cursor.data, cursor.pos + width * (k - 1) + 1,
                                        cursor.pos + width * k))],
                cursor.pos + width * count)

TilemapSize == 10

\* The whole Tilemap entries the data holds from the cursor on.
TilemapsAt(cursor) ==
    [k \in 1..(IF cursor.pos > Len(cursor.data) THEN 0
               ELSE (Len(cursor.data) - cursor.pos) \div TilemapSize) |->
        Tilemap_fromCursor(Cursor(cursor.data, cursor.pos + TilemapSize * (k - 1))).value]

\* tilesRead after n more tilemaps.
TilesReadAfter(tilemaps, tilesRead, n) ==
    tilesRead + Sum([k \in 1..n |-> tilemaps[k].count])

\* while tilesRead < tis.tileCount { read a Tilemap; tilesRead += tilemap.count }
\* The loop reads entries until tilesRead reaches tileCount, and fails at
\* the first entry the data does not hold.
ReadTilemaps(cursor, tilesRead, tileCount) ==
    Bind(TilemapsAt(cursor), LAMBDA held :
     Bind({n \in 0..Len(held) : TilesReadAfter(held, tilesRead, n) >= tileCount},
          LAMBDA enough :
      IF enough = {} THEN ReadErr(cursor)
      ELSE Bind(CHOOSE n \in enough : \A m \in enough : n <= m, LAMBDA n :
            ReadOk(SubSeq(held, 1, n), cursor.pos + TilemapSize * n))))

Overlay_fromCursor(cursor, g, f) ==
    Bind(OverlayFields(cursor), LAMBDA fields :
     IF ~fields.ok THEN Step(FALSE, FALSE, << >>, fields.pos, g)
     ELSE Bind(OverlayTileset(g, f, fields.value.tilesetName), LAMBDA loaded :
      IF loaded.panic THEN Step(FALSE, TRUE, << >>, fields.pos, loaded.g)
      ELSE IF loaded.tis = None THEN Step(TRUE, FALSE, fields.value, fields.pos, loaded.g)
      ELSE Bind(ReadTilemaps(Cursor(cursor.data, fields.value.tilemapOffset), 0,
                             loaded.tis[1].tileCount), LAMBDA tilemaps :
       IF ~tilemaps.ok THEN Step(FALSE, FALSE, << >>, tilemaps.pos, loaded.g)
       ELSE Bind(ReadIntegers(Cursor(cursor.data, fields.value.tileIndexLookupOffset), 2,
                             Len(tilemaps.value)), LAMBDA lookup :
        IF ~lookup.ok THEN Step(FALSE, FALSE, << >>, lookup.pos, loaded.g)
        ELSE Step(TRUE, FALSE,
                  [fields.value EXCEPT !.tilemaps = tilemaps.value,
                                       !.tileIndexLookup = lookup.value,
                                       !.tis = loaded.tis],
                  fields.pos, loaded.g)))))

RECURSIVE ReadOverlays(_, _, _, _)
\* for i in 0..header.overlayCount { overlays.push(Overlay::fromCursor(cursor)?) }
ReadOverlays(cursor, count, g, f) ==
    IF count = 0 THEN Step(TRUE, FALSE, << >>, cursor.pos, g)
    ELSE Bind(Overlay_fromCursor(cursor, g, f), LAMBDA overlay :
          IF ~overlay.ok THEN overlay
          ELSE Bind(ReadOverlays(Cursor(cursor.data, overlay.pos), count - 1, overlay.g, f),
                    LAMBDA rest :
                IF ~rest.ok THEN rest
                ELSE Step(TRUE, FALSE, <<overlay.value>> \o rest.value, rest.pos, rest.g)))

WedHeader_fromCursor(cursor) ==
    Bind(Identity_fromCursor(cursor), LAMBDA identity :
     IF ~identity.ok THEN identity
     ELSE Bind(ReadFields(Cursor(cursor.data, identity.pos), <<4, 4, 4, 4, 4, 4>>), LAMBDA r :
      IF ~r.ok THEN r
      ELSE ReadOk([identity |-> identity.value,
                   overlayCount |-> r.value[1], doorCount |-> r.value[2],
                   overlayOffset |-> r.value[3], headerOffset |-> r.value[4],
                   doorOffset |-> r.value[5], doorTileOffset |-> r.value[6]], r.pos)))

SecondaryHeader_fromCursor(cursor) ==
    Bind(ReadFields(cursor, <<4, 4, 4, 4, 4>>), LAMBDA r :
        IF ~r.ok THEN r
        ELSE ReadOk([polygonCount |-> r.value[1], polygonOffset |-> r.value[2],
                     verticesOffset |-> r.value[3], wallGroupsOffset |-> r.value[4],
                     polygonLookupOffset |-> r.value[5]], r.pos))

WallGroup_WallGroupSize == 75

\* overlays.iter().fold(0, |acc, overlay| acc + (overlay.tilemaps.len() as u32 / 75))
wallGroupsSize(overlays) ==
    Sum([i \in 1..Len(overlays) |-> Len(overlays[i].tilemaps) \div WallGroup_WallGroupSize])

\* Wed::fromCursor after its overlay loop, which left the cursor at `pos`.
Wed_afterOverlays(data, pos, header, overlays) ==
    Bind(SecondaryHeader_fromCursor(Cursor(data, pos)), LAMBDA secondary :
     IF ~secondary.ok THEN secondary
     ELSE Bind(ReadEntries("Door", Cursor(data, secondary.pos), header.doorCount),
               LAMBDA doors :
      IF ~doors.ok THEN doors
      ELSE Bind(ReadEntries("u32", Cursor(data, header.doorTileOffset), header.doorCount),
                LAMBDA doorTileCellIndices :
       IF ~doorTileCellIndices.ok THEN doorTileCellIndices
       ELSE Bind(ReadEntries("WallGroup", Cursor(data, secondary.value.wallGroupsOffset),
                             wallGroupsSize(overlays)), LAMBDA wallGroups :
        IF ~wallGroups.ok THEN wallGroups
        ELSE Bind(ReadEntries("Polygon", Cursor(data, secondary.value.polygonOffset),
                              secondary.value.polygonCount), LAMBDA polygons :
         IF ~polygons.ok THEN polygons
         ELSE Bind(ReadEntries("u16", Cursor(data, secondary.value.polygonLookupOffset),
                               secondary.value.polygonCount), LAMBDA polygonIndexLookup :
          IF ~polygonIndexLookup.ok THEN polygonIndexLookup
          ELSE ReadOk([header |-> header, overlays |-> overlays,
                       secondaryHeader |-> secondary.value, doors |-> doors.value,
                       doorTileCellIndices |-> doorTileCellIndices.value,
                       wallGroups |-> wallGroups.value, polygons |-> polygons.value,
                       polygonIndexLookup |-> polygonIndexLookup.value],
                      polygonIndexLookup.pos)))))))

Wed_fromCursor(cursor, g, f) ==
    Bind(WedHeader_fromCursor(cursor), LAMBDA header :
     IF ~header.ok THEN Step(FALSE, FALSE, << >>, header.pos, g)
     ELSE Bind(ReadOverlays(Cursor(cursor.data, header.pos), header.value.overlayCount, g, f),
               LAMBDA overlays :
      IF ~overlays.ok THEN overlays
      ELSE Bind(Wed_afterOverlays(cursor.data, overlays.pos, header.value, overlays.value),
                LAMBDA rest :
            Step(rest.ok, FALSE, rest.value, rest.pos, overlays.g))))

\* The bytes of tile.toBytes(): four per pixel.
TileToBytesLen == Tis_TileLength * 4

\* tis.tiles.len(): Tis::read stores tileCount tiles.
TilesLen(tis) == tis.tileCount

\* The cell of the n-th turn of the loops `for y in 0..height`, `for x in
\* 0..width`, counted from 0: cellId = y * (width - 1) + x.
CellId(overlay, n) ==
    (n \div overlay.width) * (overlay.width - 1) + (n % overlay.width)

\* The turns whose tile is pushed: the TIS is there, the cell has a lookup
\* entry and that entry names a tile of the TIS.
PushedCells(overlay) ==
    IF overlay.tis = None THEN << >>
    ELSE SelectSeq([n \in 1..(overlay.width * overlay.height) |-> n - 1], LAMBDA n :
            /\ CellId(overlay, n) < Len(overlay.tileIndexLookup)
            /\ overlay.tileIndexLookup[CellId(overlay, n) + 1] < TilesLen(overlay.tis[1]))

\* Overlay::getTileBytes.  The Vec<u8> is kept as the list of the tiles
\* whose toBytes() it concatenates, each standing for TileToBytesLen bytes.
getTileBytes(overlay) ==
    [k \in 1..Len(PushedCells(overlay)) |->
        overlay.tileIndexLookup[CellId(overlay, PushedCells(overlay)[k]) + 1]]

\* bytes.len()
BufferLen(tiles) == Len(tiles) * TileToBytesLen

\* Overlay::size: the product of width and height is a u16.
Overlay_size(overlay) ==
    ((overlay.width * overlay.height) % 65536) * Tis_TileLength * Tis_ColorLength

\* Wed::exportOverlay, with index counted from 0.
exportOverlay(wed, index) ==
    IF index < Len(wed.overlays) THEN Some(getTileBytes(wed.overlays[index + 1])) ELSE None

(***************************************************************************)
(* WED files as bytes                                                      *)
(***************************************************************************)

Wed_Signature == <<87, 69, 68, 32>>     \* "WED "
Wed_Version == <<86, 49, 46, 51>>       \* "V1.3"

WedHeaderSize == 32
OverlaySize == 24
SecondaryHeaderSize == 20
DoorSize == 26
PolygonSize == 18

\* A RESREF: the name padded with NULs to eight bytes.
ResRef(name) == name \o [i \in 1..(TypeSize_RESREF - Len(name)) |-> 0]

\* An overlay of a WED file under construction: its size in tiles, the name
\* of its tileset, the count field of each of its tilemaps, its lookup table.
Ov(width, height, name, counts, lookup) ==
    [width |-> width, height |-> height, name |-> name, counts |-> counts, lookup |-> lookup]

WedTilemapsStart(overlays, doors) ==
    WedHeaderSize + OverlaySize * Len(overlays) + SecondaryHeaderSize
        + DoorSize * doors + 4 * doors

WedTilemapOffset(overlays, doors, i) ==
    WedTilemapsStart(overlays, doors)
        + TilemapSize * Sum([k \in 1..(i - 1) |-> Len(overlays[k].counts)])

WedLookupsStart(overlays, doors) == WedTilemapOffset(overlays, doors, Len(overlays) + 1)

WedLookupOffset(overlays, doors, i) ==
    WedLookupsStart(overlays, doors) + 2 * Sum([k \in 1..(i - 1) |-> Len(overlays[k].lookup)])

WedPolygonOffset(overlays, doors) == WedLookupOffset(overlays, doors, Len(overlays) + 1)

WedBytes(overlays, doors, polygons) ==
    Wed_Signature \o Wed_Version \o U32LE(Len(overlays)) \o U32LE(doors)
    \o U32LE(WedHeaderSize) \o U32LE(WedHeaderSize + OverlaySize * Len(overlays))
    \o U32LE(WedHeaderSize + OverlaySize * Len(overlays) + SecondaryHeaderSize)
    \o U32LE(WedTilemapsStart(overlays, doors) - 4 * doors)
    \o Concat([i \in 1..Len(overlays) |->
                  U16LE(overlays[i].width) \o U16LE(overlays[i].height)
                  \o ResRef(overlays[i].name)
                  \o U16LE(Len(overlays[i].counts)) \o U16LE(0)
                  \o U32LE(WedTilemapOffset(overlays, doors, i))
                  \o U32LE(WedLookupOffset(overlays, doors, i))])
    \o U32LE(polygons) \o U32LE(WedPolygonOffset(overlays, doors))
    \o U32LE(WedPolygonOffset(overlays, doors) + PolygonSize * polygons + 2 * polygons)
    \o U32LE(WedPolygonOffset(overlays, doors))
    \o U32LE(WedPolygonOffset(overlays, doors) + PolygonSize * polygons)
    \o Concat([d \in 1..doors |->
                  ResRef(<<68, 79, 79, 82>>) \o U16LE(1) \o U16LE(0) \o U16LE(1)
                  \o U16LE(0) \o U16LE(0) \o U32LE(0) \o U32LE(0)])
    \o Concat([d \in 1..doors |-> U32LE(7)])
    \o Concat([i \in 1..Len(overlays) |->
                  Concat([k \in 1..Len(overlays[i].counts) |->
                             U16LE(k - 1) \o U16LE(overlays[i].counts[k]) \o U16LE(65535)
                             \o <<2>> \o <<0, 0, 0>>])])
    \o Concat([i \in 1..Len(overlays) |->
                  Concat([k \in 1..Len(overlays[i].lookup) |-> U16LE(overlays[i].lookup[k])])])
    \o Concat([q \in 1..polygons |->
                  U32LE(0) \o U32LE(4) \o <<1, 255>> \o U16LE(1) \o U16LE(2)
                  \o U16LE(3) \o U16LE(4)])
    \o Concat([q \in 1..polygons |-> U16LE(q - 1)])

OvCell == Ov(1, 1, <<65, 82, 50, 54, 48, 48>>, <<1>>, <<0>>)
OvRow == Ov(2, 1, <<65, 82, 50, 54, 48, 48>>, <<1, 1>>, <<0, 1>>)
OvGrid == Ov(2, 2, <<65, 82, 50, 54, 48, 48>>, <<1, 1, 1, 1>>, <<0, 1, 1, 0>>)
OvWave == Ov(1, 1, <<87, 84, 87, 65, 86, 69>>, <<1>>, <<0>>)
OvShort == Ov(1, 1, <<83, 72, 79, 82, 84>>, <<1>>, <<0>>)
OvEmpty == Ov(0, 0, << >>, << >>, << >>)
\* An animated cell: its tilemap has two tiles in the lookup table.
OvAnim == Ov(1, 1, <<65, 82, 50, 54, 48, 48>>, <<2>>, <<0, 0>>)
\* As many tilemaps as one wall group has cells; all but the last have count 0.
OvBig ==
    Ov(1, 1, <<65, 82, 50, 54, 48, 48>>,
       [k \in 1..WallGroup_WallGroupSize |-> IF k = WallGroup_WallGroupSize THEN 1 ELSE 0],
       [k \in 1..WallGroup_WallGroupSize |-> 0])

WedOverlays ==
    {<< >>, <<OvCell>>, <<OvRow>>, <<OvGrid>>, <<OvWave>>, <<OvShort>>,
     <<OvRow, OvWave, OvEmpty>>, <<OvAnim>>, <<OvBig>>, <<OvCell, OvBig>>}

WedInputs ==
    {Truncate(WedBytes(overlays, doors, polygons), cut) :
        overlays \in WedOverlays, doors \in {0, 1}, polygons \in {0, 1}, cut \in Cuts}

\* The lower-case b.bif has been installed next to b.BIF.
PatchedInstall == [FullInstall EXCEPT ![PathAreaLower] = "ok"]

\* Wed::fromCursor on `bytes`, in a process whose manager is Manager.
DecodeWed(bytes) ==
    /\ Pending("wed")
    /\ dec.input = bytes
    /\ \E r \in {Wed_fromCursor(Cursor(bytes, 0), Global(Manager, poisoned, created), fs)} :
        /\ dec' = Decoded("wed", bytes,
                      [ok |-> r.ok, panic |-> r.panic, value |-> r.value,
                       reads |-> r.g.reads])
        /\ Install(r.g.m)
        /\ poisoned' = r.g.poisoned
        /\ created' = r.g.created
    /\ UNCHANGED <<fs, last, owner, pc, call, guard, out, began, done>>

(***************************************************************************)
(* Wed::fromCursor called by a thread that holds the manager's mutex, as   *)
(* the entry points of lib.rs hold it around loadResource: the data of the *)
(* file entry that loadResource::<Wed> found is decoded under the guard.   *)
(* Mutex::lock on a thread that already holds the mutex does not return:   *)
(* it deadlocks or panics, whichever the platform's mutex does.            *)
(***************************************************************************)

\* Whether Wed::fromCursor on `bytes` gets as far as the getManager().lock()
\* of its first overlay: the header and the overlay's fields are read.
ReachesLock(bytes) ==
    Bind(WedHeader_fromCursor(Cursor(bytes, 0)), LAMBDA header :
        /\ header.ok
        /\ header.value.overlayCount > 0
        /\ OverlayFields(Cursor(bytes, header.pos)).ok)

\* The process of StartWed inside `if let Ok(manager) = getManager().lock()`:
\* thread 1 holds the guard of the manager's mutex.
StartWedLocked ==
    /\ keys = EmptyMap
    /\ bifs = EmptyMap
    /\ tlks = EmptyMap
    /\ created = 1
    /\ poisoned = FALSE
    /\ paths \in {EmptyMap, MapInsert(EmptyMap, BG1, GameDir)}
    /\ fs \in {FullInstall, PatchedInstall}
    /\ last = [op |-> "new", game |-> GamesNone, fileName |-> NoName,
               resourceType |-> 0, resourceName |-> "", ret |-> None,
               panic |-> FALSE, reads |-> << >>, hit |-> FALSE, again |-> FALSE]
    /\ owner = 1
    /\ pc = [t \in Threads |-> IF t = 1 THEN "locked" ELSE "idle"]
    /\ call = [t \in Threads |-> NoCall]
    /\ guard = [t \in Threads |-> IF t = 1 THEN "ok" ELSE "none"]
    /\ out = [t \in Threads |-> << >>]
    /\ began = [t \in Threads |-> {}]
    /\ done = {}

\* manager.loadResource::<Wed>(..) under the guard, from T::fromCursor on:
\* Wed::fromCursor on the file entry's bytes.  `relock` tells what became
\* of a lock() the decoding made on the mutex its own thread holds: the
\* thread waits in lock() for ever, or lock() panics, the guard is dropped
\* by the unwinding and the mutex is poisoned.
DecodeWedLocked(bytes) ==
    /\ Pending("wed")
    /\ dec.input = bytes
    /\ owner # NoThread
    /\ IF ReachesLock(bytes)
       THEN \E relock \in {"deadlock", "panic"} :
            /\ dec' = Decoded("wed", bytes,
                          [ok |-> FALSE, panic |-> relock = "panic", value |-> << >>,
                           reads |-> << >>, relock |-> relock])
            /\ owner' = IF relock = "panic" THEN NoThread ELSE owner
            /\ poisoned' = (relock = "panic")
            /\ pc' = [pc EXCEPT ![owner] = IF relock = "panic" THEN "panicked" ELSE "lock"]
            /\ UNCHANGED <<mgrVars, created>>
       ELSE \E r \in {Wed_fromCursor(Cursor(bytes, 0), Global(Manager, poisoned, created), fs)} :
            /\ dec' = Decoded("wed", bytes,
                          [ok |-> r.ok, panic |-> r.panic, value |-> r.value,
                           reads |-> r.g.reads, relock |-> "none"])
            /\ Install(r.g.m)
            /\ poisoned' = r.g.poisoned
            /\ created' = r.g.created
            /\ UNCHANGED <<owner, pc>>
    /\ UNCHANGED <<fs, last, call, guard, out, began, done>>

InitWedLocked ==
    /\ StartWedLocked
    /\ dec \in {Undecoded("wed", bytes) : bytes \in WedInputs}

WedLockedNext == DecodeWedLocked(dec.input)

SpecWedLocked == InitWedLocked /\ [][WedLockedNext]_vars

(***************************************************************************)
(* bits::ReadValue on u64 (bits.rs).  A u64 is kept as its eight           *)
(* little-endian bytes.  A shift by 64 or more overflows: a build with     *)
(* overflow checks panics there, a build without them shifts by the amount *)
(* modulo 64.                                                              *)
(***************************************************************************)

U64Bits == 64

\* Bit i of a u64, 0 outside the value.
BitAt(value, i) == IF i >= 0 /\ i < U64Bits THEN BitLE(value, i) ELSE 0

RECURSIVE BitsFrom(_, _, _)
\* Bits from .. from + k - 1 of value, as a number below 2^k.
BitsFrom(value, from, k) ==
    IF k <= 0 THEN 0
    ELSE BitsFrom(value, from, k - 1) + BitAt(value, from + k - 1) * (2 ^ (k - 1))

\* u64::wrapping_shr and u64::wrapping_shl: what >> and << compute when the
\* overflow check is off.
wrapping_shr(value, shift) ==
    [j \in 1..8 |-> BitsFrom(value, (shift % U64Bits) + 8 * (j - 1), 8)]
wrapping_shl(value, shift) ==
    [j \in 1..8 |-> BitsFrom(value, 8 * (j - 1) - (shift % U64Bits), 8)]

\* value - 1 of a nonzero u64.
RECURSIVE Decrement(_)
Decrement(value) ==
    IF value = << >> THEN << >>
    ELSE IF Head(value) > 0 THEN <<Head(value) - 1>> \o Tail(value)
    ELSE <<255>> \o Decrement(Tail(value))

RECURSIVE AndByte(_, _, _)
AndByte(a, b, k) ==
    IF k = 0 THEN 0
    ELSE AndByte(a, b, k - 1)
         + (IF BitU8(a, k - 1) = 1 /\ BitU8(b, k - 1) = 1 THEN 2 ^ (k - 1) ELSE 0)

\* a & b on u64.
And64(a, b) == [j \in 1..8 |-> AndByte(a[j], b[j], 8)]

One64 == <<1, 0, 0, 0, 0, 0, 0, 0>>

\* ReadValue returned `value`, or the shift panicked.
Returned(value) == [panic |-> FALSE, value |-> value]
ShiftPanic == [panic |-> TRUE, value |-> << >>]

\* bits::ReadValue: (value >> shift) & (1 << bitIndex) - 1.
ReadValue_u64(value, bitIndex, shift, overflowChecks) ==
    IF overflowChecks /\ (shift >= U64Bits \/ bitIndex >= U64Bits) THEN ShiftPanic
    ELSE Returned(And64(wrapping_shr(value, shift),
                        Decrement(wrapping_shl(One64, bitIndex))))

\* The value of ReadValueTest, the extremes, and values with high bits set.
ReadValueValues ==
    {<<125, 0, 0, 0, 0, 0, 0, 0>>,
     <<0, 0, 0, 0, 0, 0, 0, 0>>,
     <<255, 255, 255, 255, 255, 255, 255, 255>>,
     <<1, 0, 0, 0, 0, 0, 0, 128>>,
     <<239, 205, 171, 137, 103, 69, 35, 1>>}
ReadValueWidths == {0, 1, 4, 8, 16, 31, 32, 33, 63, 64}
ReadValueShifts == {0, 1, 4, 16, 28, 31, 32, 48, 63, 64}

\* ReadValue(value, bitIndex, shift) and ReadValue(value << shift, bitIndex,
\* shift), in a build with or without overflow checks.
DecodeReadValue(value, bitIndex, shift) ==
    /\ Pending("ReadValue")
    /\ dec.input = <<value, bitIndex, shift>>
    /\ \E overflowChecks \in BOOLEAN :
        dec' = Decoded("ReadValue", <<value, bitIndex, shift>>,
                   [result |-> ReadValue_u64(value, bitIndex, shift, overflowChecks),
                    shifted |-> ReadValue_u64(wrapping_shl(value, shift), bitIndex,
                                              shift, overflowChecks),
                    overflowChecks |-> overflowChecks])
    /\ UNCHANGED <<mgrVars, fs, last, hostVars>>

(***************************************************************************)
(* BIFC (types/bif/bifc.rs).  The compressed data is a zlib stream; the    *)
(* streams of the model hold stored deflate blocks only.                   *)
(***************************************************************************)

RECURSIVE AdlerB(_, _)
\* The second sum of Adler-32: the sum of the first sums after each byte.
AdlerB(data, a) ==
    IF data = << >> THEN 0
    ELSE (((a + Head(data)) % 65521) + AdlerB(Tail(data), (a + Head(data)) % 65521))
             % 65521

\* The big-endian Adler-32 a zlib stream ends with.
Adler32(data) ==
    <<AdlerB(data, 1) \div 256, AdlerB(data, 1) % 256,
      ((1 + Sum(data)) % 65521) \div 256, ((1 + Sum(data)) % 65521) % 256>>

\* zlib header (deflate, 32K window), one final stored block, checksum.
ZlibStored(data) ==
    <<120, 1, 1>> \o U16LE(Len(data)) \o U16LE(65535 - Len(data)) \o data \o Adler32(data)

RECURSIVE InflateBlocks(_, _, _)
\* The deflate blocks from `pos` on, appended to `inflated`, then the checksum.
InflateBlocks(stream, pos, inflated) ==
    IF pos + 5 > Len(stream) THEN Err("corrupt deflate stream")
    ELSE Bind(LittleEndian(SubSeq(stream, pos + 2, pos + 3)), LAMBDA len :
         IF \/ (stream[pos + 1] \div 2) % 4 # 0
            \/ len + LittleEndian(SubSeq(stream, pos + 4, pos + 5)) # 65535
            \/ pos + 5 + len > Len(stream)
         THEN Err("corrupt deflate stream")
         ELSE Bind(inflated \o SubSeq(stream, pos + 6, pos + 5 + len), LAMBDA data :
              IF stream[pos + 1] % 2 = 0 THEN InflateBlocks(stream, pos + 5 + len, data)
              ELSE IF /\ pos + 9 + len <= Len(stream)
                      /\ SubSeq(stream, pos + 6 + len, pos + 9 + len) = Adler32(data)
                   THEN Ok(data)
                   ELSE Err("corrupt deflate stream")))

\* ZlibDecoder::new(stream).read_to_end(..): bytes after the stream are left unread.
inflate(stream) ==
    IF \/ Len(stream) < 2
       \/ stream[1] % 16 # 8
       \/ (stream[1] * 256 + stream[2]) % 31 # 0
       \/ (stream[2] \div 32) % 2 # 0
    THEN Err("corrupt deflate stream")
    ELSE InflateBlocks(stream, 2, << >>)

\* Bifc::fromCursor.  fileNameLength - 1 overflows for a length of 0: a
\* build with overflow checks panics, another one asks for 2^32 - 1 bytes.
Bifc_fromCursor(cursor, overflowChecks) ==
    Bind(Identity_fromCursor(cursor), LAMBDA identity :
     IF ~identity.ok THEN UnexpectedEof
     ELSE Bind(ReadFields(Cursor(cursor.data, identity.pos), <<4>>), LAMBDA length :
      IF ~length.ok THEN UnexpectedEof
      ELSE IF length.value[1] = 0
           THEN (IF overflowChecks THEN Err("panic") ELSE UnexpectedEof)
      ELSE Bind(readBytes(Cursor(cursor.data, length.pos), length.value[1] - 1),
                LAMBDA fileNameBytes :
       IF ~fileNameBytes.ok THEN UnexpectedEof
       ELSE Bind(ReadFields(Cursor(cursor.data, fileNameBytes.pos + 1), <<4, 4>>),
                 LAMBDA lengths :
        IF ~lengths.ok THEN UnexpectedEof
        ELSE Bind(readBytes(Cursor(cursor.data, lengths.pos), lengths.value[2]),
                  LAMBDA compressedData :
         IF ~compressedData.ok THEN UnexpectedEof
         ELSE Ok([identity |-> identity.value,
                  fileNameLength |-> length.value[1],
                  fileName |-> parseString(fileNameBytes.value),
                  uncompressedLength |-> lengths.value[1],
                  compressedLength |-> lengths.value[2],
                  compressedData |-> compressedData.value]))))))

\* Bifc::toBif.
Bifc_toBif(bifc) ==
    Bind(inflate(bifc.compressedData), LAMBDA decompressedData :
        IF ~decompressedData.ok THEN Err("Failed to decode BIFC compressed data")
        ELSE Bif_fromCursor(Cursor(decompressedData.value, 0)))

Bifc_Version == <<86, 49, 46, 48>>

\* A BIFC file named "a" whose header declares `declared` uncompressed bytes.
BifcBytes(declared, stream) ==
    Bifc_Signature \o Bifc_Version \o U32LE(2) \o <<97, 0>>
    \o U32LE(declared) \o U32LE(Len(stream)) \o stream

BifcPayloads == {BifBytes(Bif_Signature, Bif_Version, files, << >>) : files \in {<< >>, <<2>>}}

\* The stream as written, without its last byte, and with a wrong checksum.
BifcStreams(payload) ==
    {ZlibStored(payload), Truncate(ZlibStored(payload), 1),
     Truncate(ZlibStored(payload), 1) \o <<0>>}

BifcInputs ==
    {Truncate(BifcBytes(Len(payload) + more, stream), cut) :
        payload \in BifcPayloads, more \in {0, 1, 7}, cut \in Cuts,
        stream \in UNION {BifcStreams(p) : p \in BifcPayloads}}

\* ReadFromFile::<Bifc> followed by toBif, as in BifcTest.
DecodeBifc(bytes) ==
    /\ Pending("bifc")
    /\ dec.input = bytes
    /\ \E overflowChecks \in BOOLEAN :
        dec' = Decoded("bifc", bytes,
                 Bind(Bifc_fromCursor(Cursor(bytes, 0), overflowChecks), LAMBDA bifc :
                    [bifc |-> bifc,
                     inflated |-> IF bifc.ok THEN inflate(bifc.value.compressedData)
                                  ELSE Err("none"),
                     bif |-> IF bifc.ok THEN Bifc_toBif(bifc.value) ELSE Err("none")]))
    /\ UNCHANGED <<mgrVars, fs, last, hostVars>>

(***************************************************************************)
(* The loop of Overlay::fromCursor that reads the tilemaps (overlay.rs),   *)
(* one iteration per step.  The input is the WED's bytes, the overlay's    *)
(* tilemapOffset and the tileCount of its TIS; the loop's state is the     *)
(* cursor position, tilesRead and the instances pushed so far.  tilesRead  *)
(* is a u32 and count a u16: the sum passes 2^32 only after more than      *)
(* 65536 entries.                                                          *)
(***************************************************************************)

TilemapLoop(position, tilesRead, instances, status) ==
    [position |-> position, tilesRead |-> tilesRead, instances |-> instances,
     status |-> status]

\* Overlay::fromCursor reaches the loop with the overlay's tilemapOffset and
\* the tileCount of its TIS:
\* cursor.set_position(tilemapOffset); tilesRead = 0; instances = vec![]
SeekTilemaps(data, tilemapOffset, tileCount) ==
    /\ dec = NoDecode
    /\ dec' = [Undecoded("tilemaps", <<data, tilemapOffset, tileCount>>)
                  EXCEPT !.out = TilemapLoop(tilemapOffset, 0, << >>, "reading")]
    /\ UNCHANGED <<mgrVars, fs, last, hostVars>>

\* One test of `tilesRead < tis.tileCount` and, where it holds, one pass
\* through the body: Tilemap::fromCursor with `?`, the addition, the push.
ReadTilemap(data, tilemapOffset, tileCount) ==
    /\ Pending("tilemaps")
    /\ dec.input = <<data, tilemapOffset, tileCount>>
    /\ dec' =
        IF dec.out.tilesRead < tileCount
        THEN Bind(Tilemap_fromCursor(Cursor(data, dec.out.position)), LAMBDA tilemap :
              IF tilemap.ok
              THEN [dec EXCEPT !.out = TilemapLoop(tilemap.pos,
                                                   dec.out.tilesRead + tilemap.value.count,
                                                   Append(dec.out.instances, tilemap.value),
                                                   "reading")]
              ELSE Decoded("tilemaps", dec.input,
                           TilemapLoop(tilemap.pos, dec.out.tilesRead, dec.out.instances,
                                       "error")))
        ELSE Decoded("tilemaps", dec.input,
                     TilemapLoop(dec.out.position, dec.out.tilesRead, dec.out.instances, "ok"))
    /\ UNCHANGED <<mgrVars, fs, last, hostVars>>

\* The most tilemap entries a buffer of the inputs holds.
MaxTilemaps == 3

\* The ten bytes of a tilemap entry with that count.
TilemapEntry(count) == U16LE(0) \o U16LE(count) \o U16LE(0) \o <<0, 0, 0, 0>>

TilemapCounts ==
    UNION {[1..n -> {0, 2}] : n \in 0..MaxTilemaps}

TilemapLoopInputs ==
    {<<Truncate(Concat([k \in 1..Len(counts) |-> TilemapEntry(counts[k])]) \o <<0, 0>>, cut),
       tilemapOffset, tileCount>> :
        counts \in TilemapCounts, cut \in {0, 3},
        tilemapOffset \in {0, TilemapSize, TilemapSize * MaxTilemaps + 20},
        tileCount \in {0, 1, 4}}

DecodeNext ==
    \/ DecodeWed(dec.input)
    \/ DecodeKey(dec.input)
    \/ DecodeBif(dec.input)
    \/ DecodeString(dec.input[1], dec.input[2])
    \/ DecodeColor(dec.input[1], dec.input[2], dec.input[3], dec.input[4])
    \/ DecodeLocator(dec.input[1], dec.input[2], dec.input[3])
    \/ DecodeReadValue(dec.input[1], dec.input[2], dec.input[3])
    \/ DecodeBifc(dec.input)

DecodeInputs ==
    {Undecoded("key", bytes) : bytes \in KeyByteInputs} \cup
    {Undecoded("bif", bytes) : bytes \in BifByteInputs} \cup
    {Undecoded("string", i) : i \in StringInputs} \cup
    {Undecoded("locator", <<b, t, f>>) : b \in LocatorBifs, t \in LocatorTiles, f \in LocatorFiles}
    \cup {Undecoded("color", <<x0, x1, x2, x3>>) :
               x0 \in ColorBytes, x1 \in ColorBytes, x2 \in ColorBytes, x3 \in ColorBytes}
    \cup {Undecoded("ReadValue", <<v, w, s>>) :
               v \in ReadValueValues, w \in ReadValueWidths, s \in ReadValueShifts}
    \cup {Undecoded("bifc", bytes) : bytes \in BifcInputs}

\* The process before a WED is decoded: the manager is still to be created,
\* or it exists with or without the install path of BaldursGate1, and its
\* mutex may have been poisoned by an earlier panic.
StartWed ==
    /\ keys = EmptyMap
    /\ bifs = EmptyMap
    /\ tlks = EmptyMap
    /\ \E c \in {0, 1}, p \in BOOLEAN, installed \in BOOLEAN :
        /\ c = 0 => (~p /\ ~installed)
        /\ created = c
        /\ poisoned = p
        /\ paths = IF installed THEN MapInsert(EmptyMap, BG1, GameDir) ELSE EmptyMap
    /\ fs \in {FullInstall, PatchedInstall}
    /\ last = [op |-> "new", game |-> GamesNone, fileName |-> NoName,
               resourceType |-> 0, resourceName |-> "", ret |-> None,
               panic |-> FALSE, reads |-> << >>, hit |-> FALSE, again |-> FALSE]
    /\ owner = NoThread
    /\ pc = [t \in Threads |-> "idle"]
    /\ call = [t \in Threads |-> NoCall]
    /\ guard = [t \in Threads |-> "none"]
    /\ out = [t \in Threads |-> << >>]
    /\ began = [t \in Threads |-> {}]
    /\ done = {}

InitDecode ==
    \/ /\ Start
       /\ dec \in DecodeInputs
    \/ /\ StartWed
       /\ dec \in {Undecoded("wed", bytes) : bytes \in WedInputs}

SpecDecode == InitDecode /\ [][DecodeNext]_vars

\* The tilemap loop on its own, one iteration per step.
TilemapsNext ==
    \/ \E i \in TilemapLoopInputs : SeekTilemaps(i[1], i[2], i[3])
    \/ ReadTilemap(dec.input[1], dec.input[2], dec.input[3])

\* The loop is sequential code: once entered, it takes its next iteration.
SpecTilemaps ==
    /\ Init /\ [][TilemapsNext]_vars
    /\ WF_vars(ReadTilemap(dec.input[1], dec.input[2], dec.input[3]))

\* C13: the locator (b << 20) | (t << 14) | f decodes to b, t and f, and a
\* BIFF file entry's index() is the low 14 bits of its locator, the value
\* indexFile() yields for the same locator.
C13_LocatorFields ==
    dec.op = "locator" /\ dec.applied =>
        /\ dec.out.indexBifEntry = dec.input[1]
        /\ dec.out.indexTileset = dec.input[2]
        /\ dec.out.indexFile = dec.input[3]
        /\ dec.out.fileEntry = dec.input[3]
        /\ dec.out.fileEntryBG5E = dec.input[3]
        /\ dec.out.fileEntryBG5E = dec.out.indexFile

\* C14: packing the color unpacked from a 32-bit BGRA value gives the value
\* back: Color::fromBGRA(x).intoBGRA() = x.
C14_BgraRoundTrip ==
    dec.op = "color" /\ dec.applied => dec.out.packed = dec.input

\* The test value 0xAABBCCDD: blue AA, green BB, red CC, alpha DD.
C14_Witness ==
    /\ dec.op = "color"
    /\ dec.applied
    /\ dec.input = <<221, 204, 187, 170>>
    /\ dec.out.color = Color(204, 187, 170, 221)
    /\ dec.out.packed = <<221, 204, 187, 170>>

\* The bytes of `bytes` that precede its first NUL.
BeforeNul(bytes) == SelectSeq(readToReal(bytes), LAMBDA b : b # 0)

\* C15: a string read of n bytes consumes exactly n bytes and returns only
\* the text that precedes the first NUL among them.
C15_StringBeforeNul ==
    (dec.op = "string" /\ dec.applied /\ dec.out.ok) =>
        /\ dec.out.pos = dec.input[1].pos + dec.input[2]
        /\ dec.out.value =
               from_utf8_lossy(BeforeNul(read_exact(dec.input[1], dec.input[2]).value))

\* The signature and the version a decoder requires.
Expected(op) ==
    IF op = "key" THEN <<Key_Signature, Key_Version>> ELSE <<Bif_Signature, Bif_Version>>

\* C16: decoding a KEY or a BIFF fails with BadSignature whenever the first
\* four bytes or the next four differ from the format's signature and version.
C16_BadSignature ==
    (/\ dec.op \in {"key", "bif"}
     /\ dec.applied
     /\ <<SubSeq(dec.input, 1, 4), SubSeq(dec.input, 5, 8)>> # Expected(dec.op))
        => (~dec.out.ok /\ dec.out.error = "BadSignature")

\* The bytes of one decoded tile: its palette values and its pixels.
TileDataBytes(tile) == Tis_ColorLength * Len(tile.palette) + Len(tile.pixels)

\* C17: a decoded BIFF has as many file and tileset entries as its header
\* declares, each file entry carries exactly `size` bytes of data, and each
\* tileset entry carries exactly `tileCount` tiles of 5120 bytes.
C17_BifCounts ==
    (dec.op = "bif" /\ dec.applied /\ dec.out.ok) =>
        /\ dec.out.value.fileCount = LittleEndian(SubSeq(dec.input, 9, 12))
        /\ dec.out.value.tilesetCount = LittleEndian(SubSeq(dec.input, 13, 16))
        /\ Len(dec.out.value.fileEntries) = dec.out.value.fileCount
        /\ Len(dec.out.value.tilesetEntries) = dec.out.value.tilesetCount
        /\ \A i \in 1..Len(dec.out.value.fileEntries) :
               Len(dec.out.value.fileEntries[i].data) = dec.out.value.fileEntries[i].size
        /\ \A j \in 1..Len(dec.out.value.tilesetEntries) :
               /\ dec.out.value.tilesetEntries[j].data # None
               /\ Len(dec.out.value.tilesetEntries[j].data[1].tiles)
                      = dec.out.value.tilesetEntries[j].tileCount
               /\ \A k \in 1..Len(dec.out.value.tilesetEntries[j].data[1].tiles) :
                      TileDataBytes(dec.out.value.tilesetEntries[j].data[1].tiles[k]) = 5120

\* A BIFF with two files, the second of three bytes, and two tilesets, the
\* second of two tiles.
C17_Witness ==
    /\ dec.op = "bif"
    /\ dec.applied
    /\ dec.out.ok
    /\ dec.out.value.fileCount = 2
    /\ dec.out.value.tilesetCount = 2
    /\ Len(dec.out.value.fileEntries[2].data) = 3
    /\ Len(dec.out.value.tilesetEntries[2].data[1].tiles) = 2

\* The WED files that are whole.
WholeWeds ==
    {WedBytes(overlays, doors, polygons) :
        overlays \in WedOverlays, doors \in {0, 1}, polygons \in {0, 1}}

\* C18: an overlay whose tileset cannot be loaded does not make the decoding
\* of the WED fail: the decoding returns, a whole file decodes when no
\* tileset can be loaded at all, and such an overlay has no tilemaps, no
\* tile index lookup and composes to zero bytes.
C18_UnloadableTileset ==
    (dec.op = "wed" /\ dec.applied) =>
        /\ ~dec.out.panic
        /\ (dec.input \in WholeWeds /\ ~dec.out.panic /\ (paths = EmptyMap \/ poisoned))
               => dec.out.ok
        /\ dec.out.ok =>
             \A i \in 1..Len(dec.out.value.overlays) :
                dec.out.value.overlays[i].tis = None =>
                    /\ dec.out.value.overlays[i].tilemaps = << >>
                    /\ dec.out.value.overlays[i].tileIndexLookup = << >>
                    /\ BufferLen(getTileBytes(dec.out.value.overlays[i])) = 0

\* C19: the buffer composed for an overlay with a loaded TIS has
\* (width * 64) * (height * 64) * 4 bytes, which is what size() returns.
C19_ComposedSize ==
    (dec.op = "wed" /\ dec.applied /\ dec.out.ok) =>
        \A i \in 1..Len(dec.out.value.overlays) :
            dec.out.value.overlays[i].tis # None =>
                /\ BufferLen(exportOverlay(dec.out.value, i - 1)[1])
                     = (dec.out.value.overlays[i].width * 64)
                        * (dec.out.value.overlays[i].height * 64) * 4
                /\ BufferLen(exportOverlay(dec.out.value, i - 1)[1])
                     = Overlay_size(dec.out.value.overlays[i])

\* C20: decoding from a cursor reads no file, touches neither the manager
\* nor its cell or mutex, and gives what the same bytes give in a process
\* that has no manager yet.
C20_DecodingIsPure ==
    [][(~dec.applied /\ dec'.applied) =>
          /\ UNCHANGED <<keys, bifs, paths, tlks, created, poisoned>>
          /\ dec'.op = "wed" =>
                /\ dec'.out.reads = << >>
                /\ dec'.out.value
                     = Wed_fromCursor(Cursor(dec.input, 0),
                                      Global(DefaultManager, FALSE, 0), fs).value]_vars

\* The bits shift .. shift + bitIndex - 1 of value: (value >> shift) mod 2^bitIndex.
FieldOf(value, bitIndex, shift) ==
    [j \in 1..8 |->
        BitsFrom(value, shift + 8 * (j - 1),
                 IF bitIndex - 8 * (j - 1) > 8 THEN 8 ELSE bitIndex - 8 * (j - 1))]

ReadValueRan == dec.op = "ReadValue" /\ dec.applied

\* C21: for every 64-bit v and every width w and shift s with w + s <= 64,
\* ReadValue(v, w, s) returns (v >> s) & ((1 << w) - 1); w = 0 yields 0; and
\* for w in 1..32 and s in 0..32 - w, ReadValue(x << s, w, s) = x & ((1 << w) - 1).
C21_ReadValueField ==
    ReadValueRan =>
        /\ dec.input[2] + dec.input[3] <= U64Bits =>
              dec.out.result = Returned(FieldOf(dec.input[1], dec.input[2], dec.input[3]))
        /\ (dec.input[2] = 0 /\ dec.input[3] <= U64Bits) =>
              dec.out.result = Returned(FieldOf(dec.input[1], 0, 0))
        /\ (dec.input[2] \in 1..32 /\ dec.input[3] \in 0..(32 - dec.input[2])) =>
              dec.out.shifted = Returned(FieldOf(dec.input[1], dec.input[2], 0))

\* C22: ReadValue rejects every call with w + s > 64: it reports an error
\* and returns no value.
C22_ReadValueRejects ==
    (ReadValueRan /\ dec.input[2] + dec.input[3] > U64Bits) => dec.out.result.panic

\* C23: converting a BIFC to a Bif fails whenever its compressed stream
\* inflates to a number of bytes other than the uncompressed length its
\* header declares.
C23_InflatedLengthChecked ==
    (/\ dec.op = "bifc" /\ dec.applied
     /\ dec.out.bifc.ok /\ dec.out.inflated.ok
     /\ Len(dec.out.inflated.value) # dec.out.bifc.value.uncompressedLength)
        => ~dec.out.bif.ok

\* The u32 at byte `at` of the KEY file that was decoded.
KeyFileU32(at) == LittleEndian(SubSeq(dec.input, at + 1, at + 4))

\* C24: KEY decoding fails whenever the offset of the BIF entries, the offset
\* of the resource entries or the file name offset of a BIF entry lies
\* outside the buffer, also when the count or length read there is zero.
C24_KeyOffsetsInBuffer ==
    (dec.op = "key" /\ dec.applied /\ dec.out.ok) =>
        /\ KeyFileU32(16) <= Len(dec.input)
        /\ KeyFileU32(20) <= Len(dec.input)
        /\ \A i \in 1..Len(dec.out.value.bifEntries) :
              dec.out.value.bifEntries[i].fileNameOffset <= Len(dec.input)

WedDecoded == dec.op = "wed" /\ dec.applied /\ dec.out.ok

\* C25: for every decoded overlay that has a TIS, the count fields of its
\* tilemaps add up to exactly the tileCount of the TIS.
C25_TilemapCountsCoverTis ==
    WedDecoded =>
        \A i \in 1..Len(dec.out.value.overlays) :
            dec.out.value.overlays[i].tis # None =>
                Sum([k \in 1..Len(dec.out.value.overlays[i].tilemaps) |->
                        dec.out.value.overlays[i].tilemaps[k].count])
                    = dec.out.value.overlays[i].tis[1].tileCount

\* C26: a decoded WED has floor(overlays[0].tilemaps.len() / 75) wall
\* groups, whatever its other overlays hold.
C26_WallGroupsOfBaseOverlay ==
    WedDecoded =>
        Len(dec.out.value.wallGroups)
            = IF dec.out.value.overlays = << >> THEN 0
              ELSE Len(dec.out.value.overlays[1].tilemaps) \div WallGroup_WallGroupSize

\* The tiles composed when cell (x, y) takes the entry y * width + x of the
\* lookup table, rows from the top, cells from the left.
RowMajorTiles(overlay) ==
    IF overlay.tis = None THEN << >>
    ELSE Bind(SelectSeq([n \in 1..(overlay.width * overlay.height) |-> n - 1], LAMBDA n :
                /\ n < Len(overlay.tileIndexLookup)
                /\ overlay.tileIndexLookup[n + 1] < overlay.tis[1].tileCount),
              LAMBDA cells : [k \in 1..Len(cells) |-> overlay.tileIndexLookup[cells[k] + 1]])

\* C27: composing an overlay takes for the cell in column x and row y the
\* entry y * width + x of tileIndexLookup, and emits the cells of a row from
\* left to right and the rows from top to bottom.
C27_RowMajorCells ==
    WedDecoded =>
        \A i \in 1..Len(dec.out.value.overlays) :
            /\ \A n \in 0..(dec.out.value.overlays[i].width
                                * dec.out.value.overlays[i].height - 1) :
                    CellId(dec.out.value.overlays[i], n) = n
            /\ getTileBytes(dec.out.value.overlays[i])
                  = RowMajorTiles(dec.out.value.overlays[i])

\* The operation recorded in `op` was a loadKey, loadBif or loadTlk that
\* returned None.
FailedLoad(op) ==
    /\ op.op \in {"loadKey", "loadBif", "loadTlk"}
    /\ op.ret = None
    /\ ~op.panic

\* Whether the call recorded in `op` would find nothing cached in m.
LoadMisses(m, op) ==
    CASE op.op = "loadKey" -> KeyCacheMiss(m, op.game)
      [] op.op = "loadBif" -> BifCacheMiss(m, op.game, op.fileName)
      [] op.op = "loadTlk" -> TlkCacheMiss(m, op.game, op.fileName)

\* C29: a loadKey, loadBif or loadTlk call that returns None leaves keys,
\* bifs, tlks and paths as they were and caches nothing under its key, so
\* the same call made again is not answered from the cache: it tries the
\* same KEY or BIF paths again, and every TLK file found if it fails again.
C29_FailedLoadCachesNothing ==
    [][ /\ FailedLoad(last') =>
                /\ UNCHANGED <<keys, bifs, tlks, paths>>
                /\ LoadMisses(Manager, last')
        /\ ( /\ FailedLoad(last)
             /\ last'.op = last.op
             /\ last'.game = last.game
             /\ last'.fileName = last.fileName
             /\ UNCHANGED fs ) =>
                /\ ~last'.hit
                /\ last.op \in {"loadKey", "loadBif"} => last'.reads = last.reads
                /\ (last.op = "loadTlk" /\ last'.ret = None /\ last.game \in DOMAIN paths) =>
                        last'.reads = GlobMatches(fs, paths[last.game], last.fileName)
      ]_vars

\* loadKey returned None after it tried to read the damaged KEY file, while
\* a Bif of the game stays cached.
C29_Witness ==
    /\ FailedLoad(last) /\ last.op = "loadKey"
    /\ last.reads = <<PathKey1>> /\ fs[PathKey1] = "corrupt"
    /\ KeyCacheMiss(Manager, last.game)
    /\ BifCount(bifs, last.game) > 0

\* The step is one test of the tilemap loop's condition.
TilemapIteration == dec.op = "tilemaps" /\ dec' # dec

\* The tilemap loop has ended, with its instances or with a read error.
TilemapLoopEnded == dec.op = "tilemaps" /\ dec.applied /\ dec.out.status \in {"ok", "error"}

C28_NoLockUnderTheLock ==
    (dec.op = "wed" /\ dec.applied) => dec.out.relock = "none"

====
